---- MODULE Spec2Model ----
(***************************************************************************)
(* Verification model of two Redex passes:                                 *)
(*   - TransformConstClassBranchesPass (src/unnamed/part_005): the         *)
(*     parallel gather of switch-equivalent const-class branch chains, the *)
(*     per-dex budgeted apply phase and the edits of apply_transform;      *)
(*   - ArtProfileWriterPass (src/opt/art-profile-writer): the reservation  *)
(*     protocol and the shared state of its parallel walks.                *)
(***************************************************************************)
EXTENDS Integers, Sequences, FiniteSets, TLC

(***************************************************************************)
(* Bounds of the model.                                                    *)
(***************************************************************************)
NumWorkers == 2
MaxPerDex == 2
MaxMinCases == 2

(***************************************************************************)
(* Program constants.                                                      *)
(***************************************************************************)
STRING_TREE_NO_ENTRY == 0
OrdinalBits == 16
Null == -1

(***************************************************************************)
(* Generic helpers on sequences and sets.                                  *)
(***************************************************************************)
Range(s) == {s[i] : i \in 1..Len(s)}

RECURSIVE SumSeq(_)
SumSeq(s) == IF s = <<>> THEN 0 ELSE Head(s) + SumSeq(Tail(s))

RECURSIVE Concat(_)
Concat(ss) == IF ss = <<>> THEN <<>> ELSE Head(ss) \o Concat(Tail(ss))

Reverse(s) == [i \in 1..Len(s) |-> s[Len(s) + 1 - i]]

Min(S) == CHOOSE x \in S : \A y \in S : x <= y

(* The elements of a finite set of integers in ascending order. *)
RECURSIVE SortedSeq(_)
SortedSeq(S) == IF S = {} THEN <<>> ELSE <<Min(S)>> \o SortedSeq(S \ {Min(S)})

(***************************************************************************)
(* Types (DexType).  A type is identified by its rank in                   *)
(* dextypes_comparator order (the order of the type names).  type_class    *)
(* gives the class definition of a type: internal, external or none.       *)
(***************************************************************************)
Types == 1..5

type_class(t) ==
  CASE t \in {1, 2, 3} -> "internal"
    [] t = 4 -> "external"
    [] OTHER -> "none"

(***************************************************************************)
(* The methods of the scope.  A method is identified by its rank in        *)
(* compare_dexmethods order; ClassOf is DexMethod::get_class.              *)
(***************************************************************************)
Methods == {1, 2, 3}
ClassOf(m) == (m + 1) \div 2
Classes == {ClassOf(m) : m \in Methods}

(***************************************************************************)
(* Input code.  A method body is described by a sequence of branch chains; *)
(* each chain compares its discriminant register against the class         *)
(* constants `types` (in execution order).  `fail` is what the             *)
(* SwitchEquivFinder and find_determining_reg report on the chain.         *)
(***************************************************************************)
FailKinds ==
  {"ok", "noreg", "nosuccess", "nonuniform", "extraloads", "nodefault"}

Chain(ts, k) == [types |-> ts, fail |-> k]

Shape(noOpt, catch, chains) == [noOpt |-> noOpt, catch |-> catch, chains |-> chains]

Catalog == <<
  (* 1 *) Shape(FALSE, FALSE, <<Chain(<<2, 1>>, "ok")>>),
  (* 2 *) Shape(FALSE, FALSE, <<Chain(<<3, 1, 2>>, "ok")>>),
  (* 3 *) Shape(FALSE, FALSE, <<Chain(<<2, 1>>, "ok"), Chain(<<3>>, "ok")>>),
  (* 4 *) Shape(TRUE, FALSE, <<Chain(<<2, 1>>, "ok")>>),
  (* 5 *) Shape(FALSE, TRUE, <<Chain(<<2, 1>>, "ok")>>),
  (* 6 *) Shape(FALSE, FALSE, <<Chain(<<4, 1, 5>>, "ok")>>),
  (* 7 *) Shape(FALSE, FALSE, <<Chain(<<1>>, "noreg"), Chain(<<3, 2>>, "ok")>>),
  (* 8 *) Shape(FALSE, FALSE, <<Chain(<<1>>, "nosuccess"), Chain(<<3, 2>>, "ok")>>),
  (* 9 *) Shape(FALSE, FALSE, <<Chain(<<1>>, "nonuniform"), Chain(<<3, 2>>, "ok")>>),
  (* 10 *) Shape(FALSE, FALSE, <<Chain(<<1>>, "extraloads"), Chain(<<3, 2>>, "ok")>>),
  (* 11 *) Shape(FALSE, FALSE, <<Chain(<<1>>, "nodefault"), Chain(<<3, 2>>, "ok")>>)
>>

ShapeIds == 1..11

(* The scopes run_pass is given: per method (1, 2, 3) its shape, 0 for a   *)
(* method without code (abstract or native).                               *)
Scopes ==
  {<<3, a, b>> : a \in {1, 2, 6}, b \in {1, 7, 8, 9, 10, 11}}
    \cup {<<a, 1, 1>> : a \in {0, 1, 4, 5}}
    \cup {<<1, 3, 1>>}

(***************************************************************************)
(* Block layout of a shape: block 0 is the entry block, then the optional  *)
(* catch block, then per chain its decision blocks followed by its leaf    *)
(* blocks, and last the exit block.  `first` is the first chain block and  *)
(* `lens` the lengths of the chains.                                       *)
(***************************************************************************)
ChainLens(chains) == [j \in 1..Len(chains) |-> Len(chains[j].types)]

ChainStart(first, lens, j) == first + 2 * SumSeq(SubSeq(lens, 1, j - 1))

(* The chain and position of a decision block, <<0, 0>> for other blocks. *)
DecisionAt(first, lens, b) ==
  IF \E j \in 1..Len(lens) : b - ChainStart(first, lens, j) \in 0..(lens[j] - 1)
    THEN CHOOSE jk \in (1..Len(lens)) \X Types :
           b - ChainStart(first, lens, jk[1]) = jk[2] - 1 /\ jk[2] <= lens[jk[1]]
  ELSE <<0, 0>>

Edge(ty, tgt, key) == [type |-> ty, tgt |-> tgt, key |-> key]

ShapeSuccs(first, lens, catch, b, j, k) ==
  IF b = 0
    THEN <<Edge("GOTO", first, 0)>>
         \o (IF catch THEN <<Edge("THROW", 1, 0)>> ELSE <<>>)
  ELSE IF catch /\ b = 1
    THEN <<Edge("GOTO", ChainStart(first, lens, Len(lens) + 1), 0)>>
  ELSE IF j = 0 THEN <<>>
  ELSE <<Edge("GOTO",
              IF k < lens[j] THEN b + 1 ELSE ChainStart(first, lens, j + 1), 0),
         Edge("BRANCH", b + lens[j], 0)>>

ShapeLast(catch, b, j) ==
  IF j # 0 THEN "if"
  ELSE IF b = 0 \/ (catch /\ b = 1) THEN "none"
  ELSE "return"

(***************************************************************************)
(* SwitchEquivFinder and find_determining_reg, seen from the pass: what    *)
(* they report for a root block of the (simplified) copy.  The result of a *)
(* finder is its success flag, whether its keys are uniformly class keys,  *)
(* its extra loads, its default case, key_to_case (the default entry is    *)
(* kept apart in default_case) and the blocks it visited.  The chain ch    *)
(* of n types starts at block `start`; b is its k-th decision block.       *)
(***************************************************************************)
FinderOn(ch, start, n, k, b) ==
  [success |-> ch.fail # "nosuccess",
   uniform |-> ch.fail # "nonuniform",
   extra_loads |-> IF ch.fail = "extraloads" THEN {b} ELSE {},
   default_case |-> IF ch.fail \in {"nodefault", "nosuccess"} THEN Null
                    ELSE start + 2 * n,
   key_to_case |-> IF ch.fail = "nosuccess" THEN <<>>
                   ELSE [t \in {ch.types[i] : i \in k..n} |->
                           start + n - 1 + CHOOSE i \in k..n : ch.types[i] = t],
   visited_blocks |-> {start + i - 1 : i \in k..n}]

BuildCfg(sh, first, lens, blocks, at) ==
  [no_optimizations |-> sh.noOpt,
   blocks |-> blocks,
   catch |-> IF sh.catch THEN {1} ELSE {},
   last |-> [b \in blocks |-> ShapeLast(sh.catch, b, at[b][1])],
   cc |-> [b \in blocks |-> IF at[b][1] # 0 THEN 1 ELSE 0],
   succs |-> [b \in blocks |-> ShapeSuccs(first, lens, sh.catch, b, at[b][1], at[b][2])],
   reg |-> [b \in blocks |->
              IF at[b][1] = 0 THEN Null
              ELSE IF sh.chains[at[b][1]].fail = "noreg" THEN Null
              ELSE at[b][1]],
   finder |-> [b \in {x \in blocks : at[x][1] # 0} |->
                 FinderOn(sh.chains[at[b][1]], ChainStart(first, lens, at[b][1]),
                          lens[at[b][1]], at[b][2], b)]]

BuildBlocks(sh, first, lens) ==
  BuildCfg(sh, first, lens, 0..ChainStart(first, lens, Len(lens) + 1),
           [b \in 0..ChainStart(first, lens, Len(lens) + 1) |->
              DecisionAt(first, lens, b)])

BuildShape(sh) == BuildBlocks(sh, IF sh.catch THEN 2 ELSE 1, ChainLens(sh.chains))

(***************************************************************************)
(* Hand-built code for the SwitchEquivFinder.  A decision block loads a    *)
(* constant and compares a register against it: `reg` is the register,     *)
(* `kind` and `val` the constant, `extra` whether the block has            *)
(* instructions beyond load/compare/branch, `catch` whether it is a catch  *)
(* handler.  `pre` says what leads to the chain: nothing, or an entry      *)
(* block that branches on an unrelated value to the chain and to a side    *)
(* decision block S that falls through to the chain ("side_last": S is the *)
(* first successor of the entry block, "side_first": the last one).        *)
(* `closed` chains end in a default block, open ones loop back to the root.*)
(***************************************************************************)
Decision(reg, kind, val, extra, catch) ==
  [reg |-> reg, kind |-> kind, val |-> val, extra |-> extra, catch |-> catch]

Eq(val) == Decision(1, "class", val, FALSE, FALSE)

HandBuilt(pre, decisions, closed) ==
  [pre |-> pre, decisions |-> decisions, closed |-> closed]

HandCatalog == <<
  (* 12 *) HandBuilt("none", <<Eq(2), Eq(3), Eq(1)>>, TRUE),
  (* 13 *) HandBuilt("none", <<Eq(1), Decision(2, "class", 2, FALSE, FALSE), Eq(3)>>, TRUE),
  (* 14 *) HandBuilt("none", <<Eq(1), Decision(1, "class", 2, FALSE, TRUE)>>, TRUE),
  (* 15 *) HandBuilt("side_last", <<Eq(1), Eq(2)>>, TRUE),
  (* 16 *) HandBuilt("side_first", <<Eq(1), Eq(2)>>, TRUE),
  (* 17 *) HandBuilt("none", <<Eq(1), Eq(2)>>, FALSE),
  (* 18 *) HandBuilt("none", <<Eq(1), Decision(1, "int", 2, FALSE, FALSE)>>, TRUE),
  (* 19 *) HandBuilt("none", <<Decision(1, "int", 1, FALSE, FALSE),
                               Decision(1, "int", 2, FALSE, FALSE)>>, TRUE),
  (* 20 *) HandBuilt("none", <<Eq(1), Decision(1, "class", 2, TRUE, FALSE)>>, TRUE),
  (* 21 *) HandBuilt("none", <<Eq(1), Eq(1), Eq(2)>>, TRUE),
  (* 22 *) HandBuilt("none", <<Eq(2), Eq(1)>>, TRUE),
  (* 23 *) HandBuilt("none", <<Eq(1)>>, TRUE),
  (* 24 *) HandBuilt("none", <<Decision(1, "class", 1, FALSE, TRUE), Eq(2)>>, TRUE),
  (* 25 *) HandBuilt("side_last", <<Eq(2), Eq(3), Eq(1)>>, TRUE)
>>

HandIds == (Len(Catalog) + 1)..(Len(Catalog) + Len(HandCatalog))

(* Blocks of hand-built code with n decisions: 0 the entry block, 1..n the *)
(* decision blocks, n+1..2n their equal targets, 2n+1 the block D after    *)
(* the chain, 2n+2 the side decision block S and 2n+3 its equal target.    *)
HandBlocks(pre, n) == 0..(IF pre = "none" THEN 2 * n + 1 ELSE 2 * n + 3)

(* The register of the side decision block: the one the chain starts on;   *)
(* its constant is a class no decision of the catalog compares with.       *)
SideDecision(decisions) == Decision(decisions[1].reg, "class", 4, FALSE, FALSE)

(* What the last instructions of block b compare: a decision, or nothing. *)
HandAt(h, n, b) ==
  IF b \in 1..n THEN h.decisions[b]
  ELSE IF b = 2 * n + 2 THEN SideDecision(h.decisions)
  ELSE Decision(Null, "none", Null, FALSE, FALSE)

HandSuccs(h, n, b) ==
  IF b = 0
    THEN CASE h.pre = "none" -> <<Edge("GOTO", 1, 0)>>
           [] h.pre = "side_last" ->
                <<Edge("GOTO", 2 * n + 2, 0), Edge("BRANCH", 1, 0)>>
           [] OTHER -> <<Edge("GOTO", 1, 0), Edge("BRANCH", 2 * n + 2, 0)>>
  ELSE IF b \in 1..n
    THEN <<Edge("GOTO", IF b < n THEN b + 1
                        ELSE IF h.closed THEN 2 * n + 1 ELSE 1, 0),
           Edge("BRANCH", n + b, 0)>>
  ELSE IF b = 2 * n + 2
    THEN <<Edge("GOTO", 1, 0), Edge("BRANCH", 2 * n + 3, 0)>>
  ELSE <<>>

HandLast(h, n, b) ==
  IF b \in 1..n \/ b = 2 * n + 2 THEN "if"
  ELSE IF b = 0 THEN (IF h.pre = "none" THEN "none" ELSE "if")
  ELSE "return"

(***************************************************************************)
(* SwitchEquivFinder as the specification describes it (section 4.4): from *)
(* the root it follows the not-equal edges; each block that ends in an     *)
(* equality branch on the discriminant adds (its constant -> its equal     *)
(* target), the first occurrence of a key winning; the first block that    *)
(* does not end in an if is the default case.  A branch on another         *)
(* register stops the walk; coming back to a visited block means there is  *)
(* no default.                                                             *)
(***************************************************************************)
goto_target(es) == es[CHOOSE i \in 1..Len(es) : es[i].type = "GOTO"].tgt

branch_target(es) == es[CHOOSE i \in 1..Len(es) : es[i].type = "BRANCH"].tgt

FinderStart ==
  [keys |-> <<>>, kinds |-> {}, extra |-> {}, visited |-> {},
   default_case |-> Null, other_reg |-> FALSE]

(* key_to_case with (key -> block) added; a key already there keeps its    *)
(* block.                                                                  *)
add_key(keys, key, block) ==
  [k \in DOMAIN keys \cup {key} |-> IF k \in DOMAIN keys THEN keys[k] ELSE block]

(* finder_visit, were the key mapped to the not-equal successor. *)
finder_visit_not_equal(g, b, acc) ==
  [acc EXCEPT !.keys = add_key(@, g.at[b].val, goto_target(g.succs[b])),
              !.kinds = @ \cup {g.at[b].kind},
              !.extra = @ \cup (IF g.at[b].extra THEN {b} ELSE {}),
              !.visited = @ \cup {b}]

(* The finder takes in decision block b. *)
finder_visit(g, b, acc) ==
  [acc EXCEPT !.keys = add_key(@, g.at[b].val, branch_target(g.succs[b])),
              !.kinds = @ \cup {g.at[b].kind},
              !.extra = @ \cup (IF g.at[b].extra THEN {b} ELSE {}),
              !.visited = @ \cup {b}]

RECURSIVE finder_walk(_, _, _, _)
finder_walk(g, reg, b, acc) ==
  IF b \in acc.visited THEN acc
  ELSE IF g.last[b] # "if" THEN [acc EXCEPT !.default_case = b]
  ELSE IF g.at[b].reg # reg THEN [acc EXCEPT !.other_reg = TRUE]
  ELSE finder_walk(g, reg, goto_target(g.succs[b]), finder_visit(g, b, acc))

(* The result of a finder: success unless a branch compared another        *)
(* register, a block had extra instructions, the keys were of several      *)
(* kinds, no default block was reached or a visited block is a catch       *)
(* handler.  `uniform` is are_keys_uniform(KeyKind::CLASS).                *)
finder_result(g, acc) ==
  [success |-> /\ ~acc.other_reg
               /\ acc.extra = {}
               /\ Cardinality(acc.kinds) <= 1
               /\ acc.default_case # Null
               /\ acc.visited \cap g.catch = {},
   uniform |-> acc.kinds \subseteq {"class"},
   extra_loads |-> acc.extra,
   default_case |-> acc.default_case,
   key_to_case |-> acc.keys,
   visited_blocks |-> acc.visited]

find_switch(g, root, reg) == finder_result(g, finder_walk(g, reg, root, FinderStart))

HandGraph(h, n, blocks) ==
  [blocks |-> blocks,
   catch |-> {b \in 1..n : h.decisions[b].catch},
   last |-> [b \in blocks |-> HandLast(h, n, b)],
   succs |-> [b \in blocks |-> HandSuccs(h, n, b)],
   at |-> [b \in blocks |-> HandAt(h, n, b)]]

(* Hand-built code as loaded, and what find_determining_reg and the finder *)
(* report on its blocks.                                                   *)
HandEntry(g) ==
  [no_optimizations |-> FALSE,
   blocks |-> g.blocks,
   catch |-> g.catch,
   last |-> g.last,
   cc |-> [b \in g.blocks |-> IF g.at[b].kind = "class" THEN 1 ELSE 0],
   succs |-> g.succs,
   reg |-> [b \in g.blocks |-> g.at[b].reg],
   finder |-> [b \in {x \in g.blocks : g.at[x].reg # Null} |->
                 find_switch(g, b, g.at[b].reg)]]

BuildHand(h) ==
  HandEntry(HandGraph(h, Len(h.decisions),
                      HandBlocks(h.pre, Len(h.decisions))))

(* Per shape: its blocks and edges as loaded, and what the analyses report *)
(* on its blocks.                                                          *)
ShapeTable ==
  [s \in ShapeIds \cup HandIds |->
     IF s \in ShapeIds THEN BuildShape(Catalog[s])
     ELSE BuildHand(HandCatalog[s - Len(Catalog)])]

(* A method of shape s as loaded: its flags and the editable cfg of its    *)
(* code.                                                                   *)
MethodOf(s, t) ==
  [shape |-> s,
   no_optimizations |-> t.no_optimizations,
   has_code |-> TRUE,
   simplified |-> FALSE,
   blocks |-> t.blocks,
   catch |-> t.catch,
   last |-> t.last,
   cc |-> t.cc,
   succs |-> t.succs,
   regs |-> 3]

InitCode(s) == MethodOf(s, ShapeTable[s])

(* A method without code: get_code() is nullptr. *)
NoCode ==
  [shape |-> 0, no_optimizations |-> FALSE, has_code |-> FALSE,
   simplified |-> FALSE, blocks |-> {}, catch |-> {},
   last |-> <<>>, cc |-> <<>>, succs |-> <<>>, regs |-> 0]

CodeOfShape(s) == IF s = 0 THEN NoCode ELSE InitCode(s)

find_determining_reg(cfg, b) == ShapeTable[cfg.shape].reg[b]

SwitchEquivFinder(cfg, b) == ShapeTable[cfg.shape].finder[b]

(***************************************************************************)
(* src/unnamed/part_005, the helpers of the gather phase.                  *)
(***************************************************************************)
RECURSIVE count_const_class(_, _)
count_const_class(cc, bs) ==
  IF bs = {} THEN 0 ELSE cc[Min(bs)] + count_const_class(cc, bs \ {Min(bs)})

num_const_class_opcodes(cfg) == count_const_class(cfg.cc, cfg.blocks)

ends_in_if_statment(cfg, b) == cfg.last[b] = "if"

(* first_relevant_block, were catch blocks not looked at. *)
first_relevant_ignores_catch(cfg, bs) ==
  IF \E i \in 1..Len(bs) : ends_in_if_statment(cfg, bs[i]) THEN "branch" ELSE "none"

(* The loop of should_consider_method over cfg.blocks(), in block order:   *)
(* "catch" when a catch block is met first, "branch" when a block ending   *)
(* in an if is met first (the loop breaks there), "none" otherwise.        *)
RECURSIVE first_relevant_block(_, _)
first_relevant_block(cfg, bs) ==
  IF bs = <<>> THEN "none"
  ELSE IF Head(bs) \in cfg.catch THEN "catch"
  ELSE IF ends_in_if_statment(cfg, Head(bs)) THEN "branch"
  ELSE first_relevant_block(cfg, Tail(bs))

should_consider_method(pass_state, method) ==
  IF method.no_optimizations THEN FALSE
  ELSE IF ~method.has_code THEN FALSE
  ELSE /\ first_relevant_block(method, SortedSeq(method.blocks)) = "branch"
       /\ num_const_class_opcodes(method) >= pass_state.min_cases

(* finder_results_are_supported, were success() not asked. *)
finder_results_ignore_success(finder) ==
  /\ finder.uniform
  /\ finder.extra_loads = {}
  /\ finder.default_case # Null

finder_results_are_supported(finder) ==
  /\ finder.success
  /\ finder.uniform
  /\ finder.extra_loads = {}
  /\ finder.default_case # Null

edge_targets(es) == [i \in 1..Len(es) |-> es[i].tgt]

RECURSIVE order_blocks_loop(_, _, _, _)
order_blocks_loop(cfg, to_visit, visited, out) ==
  IF to_visit = <<>> THEN out
  ELSE IF to_visit[Len(to_visit)] \in visited
    THEN order_blocks_loop(cfg, SubSeq(to_visit, 1, Len(to_visit) - 1),
                           visited, out)
  ELSE order_blocks_loop(
         cfg,
         SubSeq(to_visit, 1, Len(to_visit) - 1)
           \o edge_targets(cfg.succs[to_visit[Len(to_visit)]]),
         visited \cup {to_visit[Len(to_visit)]},
         Append(out, to_visit[Len(to_visit)]))

order_blocks(cfg) == order_blocks_loop(cfg, <<0>>, {}, <<>>)

(* The cases of a finder that count towards min_cases / max_cases. *)
relevant_case_count(pass_state, finder) ==
  Cardinality({t \in DOMAIN finder.key_to_case :
                 \/ pass_state.consider_external_classes
                 \/ type_class(t) = "internal"})

(* case_count_in_range, were only max_cases tested. *)
case_count_below_max(pass_state, count) == count <= pass_state.max_cases

(* The test of relevant_case_count against max_cases and min_cases. *)
case_count_in_range(pass_state, count) ==
  ~(count > pass_state.max_cases \/ count < pass_state.min_cases)

(* mark_visited, were the visited blocks not noted. *)
mark_visited_skipped(considered, finder) == considered

(* What the loop does with the blocks a supported finder visited. *)
mark_visited(considered, finder) == considered \cup finder.visited_blocks

(* after_unsupported, were the loop left at the first unsupported finder. *)
after_unsupported_stops(i, n) == n + 1

(* Where the loop goes on after a finder that is not supported: with the   *)
(* next block.                                                             *)
after_unsupported(i, n) == i + 1

BranchTransform(b, reg, finder) ==
  [block |-> b, determining_reg |-> reg, switch_equiv |-> finder]

(* The loop of gather_possible_transformations over the ordered blocks.    *)
(* acc.transforms are the BranchTransforms recorded so far, acc.runs the   *)
(* roots a SwitchEquivFinder was built for, acc.examined the blocks that   *)
(* passed the blocks_considered test.                                      *)
RECURSIVE gather_loop(_, _, _, _, _, _)

(* The body of the loop once the finder of root b is built. *)
gather_finder(pass_state, cfg, blocks, i, considered, acc, b, reg, finder) ==
  IF finder_results_are_supported(finder)
    THEN IF ~case_count_in_range(pass_state,
                                 relevant_case_count(pass_state, finder))
           THEN gather_loop(pass_state, cfg, blocks, i + 1,
                            mark_visited(considered, finder), acc)
         ELSE gather_loop(pass_state, cfg, blocks, i + 1,
                          mark_visited(considered, finder),
                          [acc EXCEPT !.transforms =
                             Append(@, BranchTransform(b, reg, finder))])
  ELSE gather_loop(pass_state, cfg, blocks, after_unsupported(i, Len(blocks)),
                   considered, acc)

(* The body of the loop for a block b not considered before. *)
gather_block(pass_state, cfg, blocks, i, considered, acc, b) ==
  IF ends_in_if_statment(cfg, b) /\ find_determining_reg(cfg, b) # Null
    THEN gather_finder(pass_state, cfg, blocks, i, considered,
                       [acc EXCEPT !.runs = @ \cup {b}], b,
                       find_determining_reg(cfg, b), SwitchEquivFinder(cfg, b))
  ELSE gather_loop(pass_state, cfg, blocks, i + 1, considered, acc)

gather_loop(pass_state, cfg, blocks, i, considered, acc) ==
  IF i > Len(blocks) THEN acc
  ELSE IF blocks[i] \in considered
    THEN gather_loop(pass_state, cfg, blocks, i + 1, considered, acc)
  ELSE gather_block(pass_state, cfg, blocks, i, considered \cup {blocks[i]},
                    [acc EXCEPT !.examined = @ \cup {blocks[i]}], blocks[i])

simplify_moves(code) == [code EXCEPT !.simplified = TRUE]

(* The code gather_possible_transformations analyses: a simplified copy of *)
(* the method's code.                                                      *)
gather_copy(method) == simplify_moves(method)

gather_on(pass_state, code_copy) ==
  [code_copy |-> code_copy,
   found |-> gather_loop(pass_state, code_copy, order_blocks(code_copy), 1, {},
                         [transforms |-> <<>>, runs |-> {}, examined |-> {}])]

(* gather_possible_transformations up to the append to method_transforms:  *)
(* the copy and what the loop found on it.                                 *)
gather_possible_transformations(pass_state, method) ==
  gather_on(pass_state, gather_copy(method))

(***************************************************************************)
(* The ControlFlowGraph edits apply_transform uses.                        *)
(***************************************************************************)
allocate_temp(cfg) == [reg |-> cfg.regs, cfg |-> [cfg EXCEPT !.regs = @ + 1]]

(* replace_insns on the if that ends block b: the replacements take its    *)
(* place, the block no longer ends in a branch and its BRANCH edges go.    *)
replace_insns(cfg, b) ==
  [cfg EXCEPT !.last[b] = "none",
              !.succs[b] = SelectSeq(@, LAMBDA e : e.type # "BRANCH")]

(* create_branch(b, switch, nullptr, case_to_block): the switch becomes    *)
(* the last instruction of b, with one edge per case.                      *)
create_branch(cfg, b, case_to_block) ==
  [cfg EXCEPT !.last[b] = "switch",
              !.succs[b] = @ \o [i \in 1..Len(case_to_block) |->
                                   Edge("BRANCH", case_to_block[i][2],
                                        case_to_block[i][1])]]

set_edge_target(e, tgt) == [e EXCEPT !.tgt = tgt]

(* reachable_from, were only the successors of the frontier added. *)
reachable_one_step(cfg, frontier, seen) ==
  seen \cup UNION {{cfg.succs[f][i].tgt : i \in 1..Len(cfg.succs[f])} : f \in frontier}

RECURSIVE reachable_from(_, _, _)
reachable_from(cfg, frontier, seen) ==
  IF frontier = {} THEN seen
  ELSE reachable_from(
         cfg,
         UNION {Range(edge_targets(cfg.succs[f])) : f \in frontier} \ seen,
         seen \cup UNION {Range(edge_targets(cfg.succs[f])) : f \in frontier})

keep_blocks(cfg, keep) ==
  [cfg EXCEPT !.blocks = keep,
              !.catch = @ \cap keep,
              !.last = [b \in keep |-> @[b]],
              !.cc = [b \in keep |-> @[b]],
              !.succs = [b \in keep |-> @[b]]]

remove_unreachable_blocks(cfg) == keep_blocks(cfg, reachable_from(cfg, {0}, {0}))

(***************************************************************************)
(* src/unnamed/part_005, apply_transform.                                  *)
(***************************************************************************)
(* A value stored in an int16_t. *)
Int16(x) ==
  IF (x % (2 ^ OrdinalBits)) >= 2 ^ (OrdinalBits - 1)
    THEN (x % (2 ^ OrdinalBits)) - 2 ^ OrdinalBits
  ELSE x % (2 ^ OrdinalBits)

(* ordered_types: the non-default keys in dextypes_comparator order. *)
ordered_types(key_to_case) == SortedSeq(DOMAIN key_to_case)

(* The first ordinal handed out. *)
first_ordinal == STRING_TREE_NO_ENTRY + 1

(* ordinal_of, were the counter started at STRING_TREE_NO_ENTRY. *)
ordinal_from_zero(i) == Int16(STRING_TREE_NO_ENTRY + (i - 1))

(* The ordinal of the i-th type in order: counter starts at first_ordinal  *)
(* and is incremented per type.                                            *)
ordinal_of(i) == Int16(first_ordinal + (i - 1))

items_of(types) == [i \in 1..Len(types) |-> <<types[i], ordinal_of(i)>>]

string_tree_items(key_to_case) == items_of(ordered_types(key_to_case))

edges_of(types, key_to_case) ==
  [i \in 1..Len(types) |-> <<ordinal_of(i), key_to_case[types[i]]>>]

new_edges(key_to_case) == edges_of(ordered_types(key_to_case), key_to_case)

(* The size of the string StringTreeMap<int16_t>::encode_string_tree_map   *)
(* makes of the items: it grows with every item and its name.              *)
encoded_size(items) == 1 + SumSeq([i \in 1..Len(items) |-> 2 + items[i][1]])

MethodRef(kind, cls, idx) == [kind |-> kind, cls |-> cls, idx |-> idx]

(* create_string_getter_method, were the name not numbered. *)
create_string_getter_unnumbered(cls, transform_count) ==
  [getter |-> MethodRef("getter", cls, 0),
   mrefs |-> {MethodRef("RuntimeException.<init>", 0, 0),
              MethodRef("getter", cls, 0)}]

(* create_string_getter_method: the getter is named after transform_count  *)
(* and added to the class of the method; its code invokes                  *)
(* RuntimeException.<init> and itself.                                     *)
create_string_getter_method(cls, transform_count) ==
  [getter |-> MethodRef("getter", cls, transform_count),
   mrefs |-> {MethodRef("RuntimeException.<init>", 0, 0),
              MethodRef("getter", cls, transform_count)}]

(* How a transform's string size enters the Stats of apply_transform. *)
record_string_size(sofar, size) == size

(* The three registers a transform allocates: zero_depth_reg,              *)
(* encoded_str_reg and default_value_reg, and the cfg after them.          *)
temps_allocated(a, b, c) == [regs |-> <<a.reg, b.reg, c.reg>>, cfg |-> c.cfg]

temps_after_second(a, b) == temps_allocated(a, b, allocate_temp(b.cfg))

temps_after_first(a) == temps_after_second(a, allocate_temp(a.cfg))

allocate_temps(cfg) == temps_after_first(allocate_temp(cfg))

(* reset_goto, were the GOTO edge left where the if had it. *)
reset_goto_skipped(cfg, b, default_case) == cfg

(* The GOTO edges of block b are reset to the default case. *)
reset_goto(cfg, b, default_case) ==
  [cfg EXCEPT !.succs[b] =
     [i \in 1..Len(@) |->
        IF @[i].type = "GOTO" THEN set_edge_target(@[i], default_case)
        ELSE @[i]]]

install_switch(cfg, transform, edges) ==
  reset_goto(create_branch(replace_insns(cfg, transform.block),
                           transform.block, edges),
             transform.block, transform.switch_equiv.default_case)

(* What one round of the loop did: st is the state it started from, regs   *)
(* the registers it allocated and cfg the graph it left.                   *)
TransformLog(transform, index, items, edges, st, regs, cfg) ==
  [block |-> transform.block,
   index |-> index,
   key_to_case |-> transform.switch_equiv.key_to_case,
   default_case |-> transform.switch_equiv.default_case,
   items |-> items,
   new_edges |-> edges,
   size |-> encoded_size(items),
   blocks_before |-> st.cfg.blocks,
   prunes_before |-> st.prunes,
   regs_before |-> st.cfg.regs,
   temps |-> regs,
   root_last |-> IF transform.block \in cfg.blocks
                   THEN cfg.last[transform.block] ELSE "gone",
   root_succs |-> IF transform.block \in cfg.blocks
                    THEN cfg.succs[transform.block] ELSE <<>>]

apply_logged(st, transform, made, items, edges, regs, cfg) ==
  [cfg |-> cfg,
   transform_count |-> st.transform_count + 1,
   string_tree_size |->
     record_string_size(st.string_tree_size, encoded_size(items)),
   getters |-> Append(st.getters, made.getter),
   mrefs |-> st.mrefs \cup made.mrefs \cup {MethodRef("lookup_method", 0, 0)},
   log |-> Append(st.log, TransformLog(transform, st.transform_count, items,
                                       edges, st, regs, cfg)),
   prunes |-> st.prunes]

apply_installed(st, transform, made, items, edges, temps) ==
  apply_logged(st, transform, made, items, edges, temps.regs,
               install_switch(temps.cfg, transform, edges))

apply_edit(st, transform, made, items, edges) ==
  apply_installed(st, transform, made, items, edges, allocate_temps(st.cfg))

(* The cleanup of the end of apply_transform, were it done in the loop. *)
prune_in_loop(st) ==
  [st EXCEPT !.cfg = remove_unreachable_blocks(@), !.prunes = @ + 1]

(* apply_one_transform, were unreachable blocks removed after every        *)
(* transform.                                                              *)
apply_one_transform_pruning(cls, st, transform) ==
  prune_in_loop(
    apply_edit(st, transform,
               create_string_getter_method(cls, st.transform_count),
               string_tree_items(transform.switch_equiv.key_to_case),
               new_edges(transform.switch_equiv.key_to_case)))

(* One round of the loop over mt.transforms. *)
apply_one_transform(cls, st, transform) ==
  apply_edit(st, transform,
             create_string_getter_method(cls, st.transform_count),
             string_tree_items(transform.switch_equiv.key_to_case),
             new_edges(transform.switch_equiv.key_to_case))

RECURSIVE apply_loop(_, _, _)
apply_loop(cls, st, transforms) ==
  IF transforms = <<>> THEN st
  ELSE apply_loop(cls, apply_one_transform(cls, st, Head(transforms)),
                  Tail(transforms))

apply_result(before, done, pruned) ==
  [code |-> pruned,
   unpruned |-> done.cfg,
   prunes |-> done.prunes + 1,
   stats |-> [methods_transformed |-> 1,
              const_class_instructions_removed |->
                before - num_const_class_opcodes(pruned),
              string_tree_size |-> done.string_tree_size],
   getters |-> done.getters,
   mrefs |-> done.mrefs,
   log |-> done.log]

apply_finish(before, done) ==
  apply_result(before, done, remove_unreachable_blocks(done.cfg))

(* apply_transform(pass_state, mt, transform_count): the edited copy that  *)
(* set_code makes the method's code, the Stats it returns and what it      *)
(* created on the way.                                                     *)
apply_transform(mt, transform_count) ==
  apply_finish(num_const_class_opcodes(mt.code_copy),
               apply_loop(ClassOf(mt.method),
                          [cfg |-> mt.code_copy,
                           transform_count |-> transform_count,
                           string_tree_size |-> 0, getters |-> <<>>,
                           mrefs |-> {}, log |-> <<>>, prunes |-> 0],
                          mt.transforms))

(***************************************************************************)
(* PassManager: the references passes reserve.  reserve_refs hands out a   *)
(* handle, release_reserved_refs gives the reservation of a handle back.   *)
(***************************************************************************)
reserve_refs(m, pass, frefs, trefs, mrefs) ==
  [handle |-> m.next,
   mgr |-> [m EXCEPT !.reserved = @ \cup {[id |-> m.next, pass |-> pass,
                                            frefs |-> frefs, trefs |-> trefs,
                                            mrefs |-> mrefs]},
                     !.next = @ + 1]]

release_reserved_refs(m, h) ==
  [m EXCEPT !.reserved = {r \in @ : r.id # h},
            !.released = Append(@, h)]

(***************************************************************************)
(* ArtProfileWriterPass: the methods it walks.  An instruction is its      *)
(* opcode kind and, for an invoke, the method resolve_invoke_method finds  *)
(* (Null: none).  flags is the method's entry in the baseline profile.     *)
(***************************************************************************)
Insn(op, callee) == [op |-> op, callee |-> callee]

NoInsn == Insn("none", Null)

ArtMethod(kind, nblocks, insns, ecu, annos, flags) ==
  [clinit |-> kind = "clinit",
   has_code |-> kind # "nocode",
   cls_external |-> kind = "external",
   overridable |-> kind = "virtual",
   nblocks |-> nblocks,
   insns |-> insns,
   ecu |-> ecu,
   loops |-> IF kind = "loop" THEN 1 ELSE 0,
   call_count |-> IF kind = "called" THEN 1 ELSE 0,
   has_anno_set |-> annos # {},
   annos |-> annos,
   access |-> 1,
   flags |-> flags]

Caller(kind, callees, ecu, flags) ==
  ArtMethod(kind, 2,
            [i \in 1..Len(callees) |-> Insn("invoke", callees[i])]
              \o <<Insn("return", Null)>>,
            ecu, {}, flags)

Leaf(kind, ecu, annos, flags) ==
  ArtMethod(kind, 2, <<Insn("other", Null), Insn("return", Null)>>, ecu, annos,
            flags)

Forwarder(callee, flags) ==
  ArtMethod("plain", 1,
            <<Insn("load_param", Null), Insn("invoke", callee),
              Insn("move_result", Null), Insn("return", Null)>>,
            4, {}, flags)

Getter(flags) ==
  ArtMethod("plain", 1, <<Insn("const", Null), Insn("return", Null)>>, 2, {},
            flags)

(* The scopes the pass is run on: per method (1, 2, 3) what it is. *)
ArtScopes ==
  { <<Caller("plain", <<2, 3>>, 10, "hot"), Leaf("plain", 10, {}, "cold"),
      Leaf("plain", 10, {}, "hot")>>,
    <<Caller("plain", <<2>>, 10, "hot"), Forwarder(3, "absent"),
      Leaf("plain", 10, {"Other"}, "absent")>>,
    <<Caller("plain", <<2>>, 3000, "hot"),
      Leaf("plain", 10, {"NeverCompile"}, "hot"), Leaf("clinit", 10, {}, "hot")>>,
    <<Caller("loop", <<2, 3>>, 10, "hot"), Getter("absent"),
      Leaf("virtual", 40, {}, "absent")>>,
    <<Caller("called", <<2, 3, Null>>, 10, "hot"),
      Leaf("plain", 10, {"NeverInline"}, "cold"), Leaf("nocode", 0, {}, "absent")>>,
    <<Caller("plain", <<3>>, 10, "hot"), Caller("plain", <<3, 1>>, 10, "cold"),
      Leaf("plain", 40, {"Other"}, "hot")>>,
    <<Caller("plain", <<2, 3>>, 10, "hot"), Leaf("external", 10, {}, "absent"),
      Leaf("plain", 2, {}, "cold")>> }

(* baseline_profile.methods as run_pass computes it for the scope. *)
BaselineProfile(ms) ==
  [m \in {x \in DOMAIN ms : ms[x].flags # "absent"} |-> [hot |-> ms[m].flags = "hot"]]

(***************************************************************************)
(* src/opt/art-profile-writer/ArtProfileWriterPass.cpp, the helpers.       *)
(***************************************************************************)
is_compiled_flags(method, flags) == flags.hot /\ ~method.clinit

is_compiled(baseline_profile, ms, m) ==
  /\ m \in DOMAIN baseline_profile
  /\ is_compiled_flags(ms[m], baseline_profile[m])

has_anno(method, anno) == method.has_anno_set /\ anno \in method.annos

RECURSIVE skip_load_params(_, _)
skip_load_params(insns, i) ==
  IF insns[i].op = "load_param" THEN skip_load_params(insns, i + 1) ELSE i

(* Whether is_simple gets as far as looking at the instructions. *)
single_return_block(method) ==
  /\ method.nblocks = 1
  /\ method.insns # <<>>
  /\ method.insns[Len(method.insns)].op = "return"

after_single_insn(insns, i) ==
  IF insns[i].op \in {"const", "iget", "sget", "invoke"} THEN i + 1 ELSE i

after_move_result(insns, i) ==
  IF insns[i].op = "move_result" THEN i + 1 ELSE i

is_simple(method) ==
  /\ single_return_block(method)
  /\ after_move_result(
       method.insns,
       after_single_insn(method.insns, skip_load_params(method.insns, 1)))
     = Len(method.insns)

(* What is_simple stores in *invoke_insn (NoInsn: it leaves it alone). *)
simple_invoke_at(insns, i) == IF insns[i].op = "invoke" THEN insns[i] ELSE NoInsn

simple_invoke(method) ==
  IF single_return_block(method)
    THEN simple_invoke_at(method.insns, skip_load_params(method.insns, 1))
  ELSE NoInsn

resolve_invoke_method(insn) == insn.callee

consider_callee(ms, callee) ==
  IF callee = Null THEN FALSE
  ELSE IF ~ms[callee].has_code THEN FALSE
  ELSE IF ms[callee].cls_external THEN FALSE
  ELSE ~ms[callee].overridable

RECURSIVE get_callee(_, _)
get_callee(ms, invoke_insn) ==
  IF ~consider_callee(ms, resolve_invoke_method(invoke_insn)) THEN Null
  ELSE IF /\ is_simple(ms[resolve_invoke_method(invoke_insn)])
          /\ simple_invoke(ms[resolve_invoke_method(invoke_insn)]) # NoInsn
    THEN get_callee(ms, simple_invoke(ms[resolve_invoke_method(invoke_insn)]))
  ELSE resolve_invoke_method(invoke_insn)

(* The callees the first walk of never_inline finds in a caller. *)
callees_of(ms, method) ==
  {get_callee(ms, method.insns[i]) :
     i \in {k \in 1..Len(method.insns) : method.insns[k].op = "invoke"}} \ {Null}

(* What the callback of the first walk of never_inline does for caller m:  *)
(* whether it counts the caller as too large, and the callees it inserts.  *)
never_inline_analysis(baseline_profile, ms, m) ==
  IF ~is_compiled(baseline_profile, ms, m)
    THEN [too_large |-> 0, hot_hot |-> {}, hot_cold |-> {}]
  ELSE IF ms[m].ecu > 2048
    THEN [too_large |-> 1, hot_hot |-> {}, hot_cold |-> {}]
  ELSE [too_large |-> 0,
        hot_hot |-> {c \in callees_of(ms, ms[m]) :
                       is_compiled(baseline_profile, ms, c)},
        hot_cold |-> {c \in callees_of(ms, ms[m]) :
                        ~is_compiled(baseline_profile, ms, c)}]

(* What the callback of the second walk of never_inline decides. *)
never_inline_decision(callees, method, m) ==
  IF has_anno(method, "NeverInline") THEN "callees_already_never_inline"
  ELSE IF m \notin callees.hot_cold THEN "skip"
  ELSE IF m \in callees.hot_hot THEN "callees_too_hot"
  ELSE IF method.ecu > 32 THEN "callees_too_large"
  ELSE IF method.ecu <= 3 THEN "callees_too_small"
  ELSE IF is_simple(method) THEN "callees_simple"
  ELSE "callees_annotation_attached"

(* What the callback of never_compile decides for method m. *)
never_compile_decision(threshold, baseline_profile, method, m) ==
  IF method.clinit THEN "skip"
  ELSE IF m \notin DOMAIN baseline_profile THEN "skip"
  ELSE IF ~baseline_profile[m].hot THEN "skip"
  ELSE IF method.call_count > threshold THEN "skip"
  ELSE IF method.loops > 0 THEN "skip"
  ELSE IF has_anno(method, "NeverCompile") THEN "already_never_compile"
  ELSE IF method.has_anno_set THEN "combined"
  ELSE "attached"

(* get_anno_set()->combine_with(anno_set) *)
combine_with(method, anno) == [method EXCEPT !.annos = @ \cup {anno}]

(* set_access(access | ACC_SYNTHETIC), attach_annotation_set, then         *)
(* set_access(access).                                                     *)
attach_annotation_set(method, anno) ==
  [method EXCEPT !.has_anno_set = TRUE, !.annos = {anno}, !.access = method.access]

annotate(method, anno) ==
  IF method.has_anno_set THEN combine_with(method, anno)
  ELSE attach_annotation_set(method, anno)

(* The value of mf.hot after never_compile attached a new annotation set. *)
hot_after_attach(hot) == FALSE

Bump(counters, name, n) == [counters EXCEPT ![name] = @ + n]

(***************************************************************************)
(* Inputs: the configuration bound by bind_config and the stores.          *)
(***************************************************************************)
MaxCasesChoices == {2, 3}

Configs ==
  [min_cases : 1..MaxMinCases,
   max_cases : MaxCasesChoices,
   transforms_per_dex : 1..MaxPerDex,
   consider_external_classes : BOOLEAN]

(* Stores, each a sequence of dex files, each a sequence of classes. *)
Layouts ==
  { << << <<2, 1>> >> >>,
    << << <<1>> >>, << <<2>> >> >> }

DexFiles(ss) == Concat(ss)

Workers == 1..NumWorkers

LookupResults == {"empty", "notfound", "found"}

ArtConfigs ==
  [never_inline_attach_annotations : BOOLEAN,
   never_inline_estimate : BOOLEAN,
   never_compile_threshold : {-1, 0}]

VARIABLES
  active,             \* the pass the PassManager evaluates and runs
  config,             \* the bound configuration of TransformConstClassBranchesPass
  art,                \* the bound configuration of ArtProfileWriterPass
  ameth,              \* per method: what ArtProfileWriterPass sees of it
  profile,            \* baseline_profile.methods
  callees,            \* hot_hot_callees, hot_cold_callees, estimated_code_units
  counters,           \* the atomic counters of the walks of ArtProfileWriterPass
  cursor,             \* the next method of the sequential walk of never_inline
  lookup,             \* what run_pass finds for string_tree_lookup_method
  stores,             \* the DexStoresVector handed to run_pass
  live,               \* per method: the code method->get_code() returns
  handle,             \* m_reserved_refs_handle (Null: std::nullopt)
  mgr,                \* the PassManager's reservations
  pc,                 \* where run_pass is
  pending,            \* methods the parallel walk has not visited yet
  wpc,                \* per worker: where it is in gather
  wres,               \* per worker: the MethodTransform it is about to append
  mutex,              \* holder of transforms_mutex (0: free)
  access,             \* the writes to shared objects a worker made in its last step
  method_transforms,  \* the vector the gather phase fills
  gatherLog,          \* per visited method: what gather did on it
  curDex,             \* index of the dex file apply_transforms_dex works on
  phase,              \* where apply_transforms_dex is
  perDex,             \* what is left of per_dex_transforms, in iteration order
  tcount,             \* transform_count of the current dex
  stats,              \* the Stats run_pass accumulates
  applied,            \* the apply_transform calls made, in order
  getters,            \* the getter methods added to classes, in order
  dexMrefs,           \* per dex: the method refs the edits introduced
  metrics,            \* what was reported by incr_metric
  lab                 \* the code under study when one service is run on its own

inputVars == <<active, config, stores, art, lab>>
artVars == <<ameth, profile, callees, counters, cursor>>
gatherVars == <<pending, wpc, wres, mutex, method_transforms, gatherLog>>
applyVars == <<curDex, phase, perDex, tcount, stats, applied, getters, dexMrefs>>
ccbVars == <<lookup, live, wpc, wres, mutex, method_transforms, gatherLog, applyVars>>

vars == <<active, art, ameth, profile, callees, counters, cursor, config, lookup, stores, live, handle, mgr, pc, pending, wpc, wres, mutex,
          access, method_transforms, gatherLog, curDex, phase, perDex, tcount,
          stats, applied, getters, dexMrefs, metrics, lab>>

ZeroStats ==
  [methods_transformed |-> 0, const_class_instructions_removed |-> 0,
   string_tree_size |-> 0]

(* Stats::operator+= *)
StatsPlus(a, b) ==
  [methods_transformed |-> a.methods_transformed + b.methods_transformed,
   const_class_instructions_removed |->
     a.const_class_instructions_removed + b.const_class_instructions_removed,
   string_tree_size |-> a.string_tree_size + b.string_tree_size]

PassState == [min_cases |-> config.min_cases, max_cases |-> config.max_cases,
              consider_external_classes |-> config.consider_external_classes]

(* A write of a worker to an object the workers of a walk share. *)
Access(obj, kind, key, visiting, locked) ==
  [obj |-> obj, kind |-> kind, key |-> key, visiting |-> visiting,
   locked |-> locked]

ZeroCounters ==
  [n \in {"never_compile_methods", "methods_already_never_compile",
          "methods_annotation_attached",
          "methods_with_baseline_profile_code_units", "compiled",
          "compiled_code_units", "callers_too_large",
          "callees_already_never_inline", "callees_too_hot", "callees_simple",
          "callees_too_small", "callees_too_large",
          "callees_annotation_attached"} |-> 0]

(* No service is run on its own while the PassManager runs a pass. *)
NoLab == [unit |-> "none"]

(* The PassManager runs one of the two passes. *)
InitCcb ==
  /\ active = "ccb"
  /\ config \in Configs
  /\ stores \in Layouts
  /\ \E shape \in Scopes : live = [m \in Methods |-> CodeOfShape(shape[m])]
  /\ art = [never_inline_attach_annotations |-> FALSE,
            never_inline_estimate |-> FALSE, never_compile_threshold |-> -1]
  /\ ameth = <<>>
  /\ profile = <<>>

InitArt ==
  /\ active = "art"
  /\ config = [min_cases |-> 1, max_cases |-> 2, transforms_per_dex |-> 1,
               consider_external_classes |-> FALSE]
  /\ stores = << << <<2, 1>> >> >>
  /\ live = [m \in Methods |-> NoCode]
  /\ art \in ArtConfigs
  /\ ameth \in ArtScopes
  /\ profile = BaselineProfile(ameth)

Init ==
  /\ InitCcb \/ InitArt
  /\ callees = [estimated_code_units |-> <<>>, hot_hot |-> {}, hot_cold |-> {}]
  /\ counters = ZeroCounters
  /\ cursor = 0
  /\ lookup = "unread"
  /\ handle = Null
  /\ mgr = [reserved |-> {}, next |-> 1, released |-> <<>>]
  /\ pc = "idle"
  /\ pending = {}
  /\ wpc = [w \in Workers |-> "idle"]
  /\ wres = [w \in Workers |-> <<>>]
  /\ mutex = 0
  /\ access = {}
  /\ method_transforms = <<>>
  /\ gatherLog = <<>>
  /\ curDex = 0
  /\ phase = "none"
  /\ perDex = <<>>
  /\ tcount = 0
  /\ stats = ZeroStats
  /\ applied = <<>>
  /\ getters = <<>>
  /\ dexMrefs = [d \in 1..Len(DexFiles(stores)) |-> {}]
  /\ metrics = <<>>
  /\ lab = NoLab

(***************************************************************************)
(* TransformConstClassBranchesPass::eval_pass.  The PassManager evaluates  *)
(* a pass once, before it runs it.                                         *)
(***************************************************************************)
(* reserved_mrefs, were only the getters counted. *)
reserved_mrefs_getters_only(cfg) == cfg.transforms_per_dex

(* The mrefs eval_pass reserves. *)
reserved_mrefs(cfg) == 2 + cfg.transforms_per_dex

EvalPass ==
  /\ active = "ccb"
  /\ pc = "idle"
  /\ handle = Null
  /\ \E r \in {reserve_refs(mgr, "ccb", 0, 1, reserved_mrefs(config))} :
       /\ handle' = r.handle
       /\ mgr' = r.mgr
  /\ pc' = "evaluated"
  /\ access' = {}
  /\ UNCHANGED <<inputVars, artVars, lookup, live, gatherVars, applyVars, metrics>>

(***************************************************************************)
(* TransformConstClassBranchesPass::run_pass.                              *)
(***************************************************************************)
(* always_assert(m_reserved_refs_handle) fails: run_pass was entered with  *)
(* no reservation outstanding.                                             *)
RunPassAssertFails ==
  /\ active = "ccb"
  /\ pc \in {"idle", "done"}
  /\ handle = Null
  /\ pc' = "aborted"
  /\ access' = {}
  /\ UNCHANGED <<inputVars, artVars, lookup, live, handle, mgr, gatherVars, applyVars, metrics>>

(* run_pass_release, were the handle not reset. *)
run_pass_keeps_handle(h, m) == [handle |-> h, mgr |-> release_reserved_refs(m, h)]

(* The reservation after the first three statements of run_pass. *)
run_pass_release(h, m) ==
  [handle |-> Null, mgr |-> release_reserved_refs(m, h)]

(* Whether run_pass returns before the gather phase. *)
returns_early(found) == found \in {"empty", "notfound"}

RunPassBegin ==
  /\ active = "ccb"
  /\ pc = "evaluated"
  /\ handle # Null
  /\ \E r \in {run_pass_release(handle, mgr)} :
       /\ handle' = r.handle
       /\ mgr' = r.mgr
  /\ \E found \in LookupResults :
       /\ lookup' = found
       /\ IF returns_early(found)
            THEN /\ pc' = "done"
                 /\ UNCHANGED pending
          ELSE /\ pc' = "gather"
               /\ pending' = Methods
  /\ access' = {}
  /\ UNCHANGED <<inputVars, artVars, live, wpc, wres, mutex, method_transforms,
                 gatherLog, applyVars, metrics>>

(* gather_live_code, were the worker to write its copy back. *)
gather_writes_back(code, code_copy) == code_copy

(* What a worker leaves in the method's live code while it gathers. *)
gather_live_code(code, code_copy) == code

GatherLogEntry(considered, found) ==
  [considered |-> considered,
   runs |-> found.runs,
   examined |-> found.examined,
   roots |-> {found.transforms[i].block : i \in 1..Len(found.transforms)}]

(* A worker takes a method of the walk: should_consider_method, then       *)
(* gather_possible_transformations up to the lock.                         *)
GatherVisit(w) ==
  /\ pc = "gather"
  /\ wpc[w] = "idle"
  /\ \E m \in pending :
       /\ pending' = pending \ {m}
       /\ IF should_consider_method(PassState, live[m])
            THEN \E g \in {gather_possible_transformations(PassState, live[m])} :
                   /\ gatherLog' = gatherLog @@ (m :> GatherLogEntry(TRUE, g.found))
                   /\ live' = [live EXCEPT ![m] = gather_live_code(@, g.code_copy)]
                   /\ IF g.found.transforms # <<>>
                        THEN /\ wpc' = [wpc EXCEPT ![w] = "lock"]
                             /\ wres' = [wres EXCEPT ![w] =
                                           [method |-> m,
                                            code_copy |-> g.code_copy,
                                            transforms |-> g.found.transforms]]
                      ELSE UNCHANGED <<wpc, wres>>
          ELSE /\ gatherLog' =
                    gatherLog @@ (m :> [considered |-> FALSE, runs |-> {},
                                        examined |-> {}, roots |-> {}])
               /\ UNCHANGED <<live, wpc, wres>>
  /\ access' = {}
  /\ UNCHANGED <<inputVars, artVars, lookup, handle, mgr, pc, mutex, method_transforms,
                 applyVars, metrics>>

(* lock_taken, were the append made without the lock_guard. *)
lock_not_taken(w) == 0

(* std::lock_guard<std::mutex> lock(pass_state.transforms_mutex) *)
lock_available(w) == mutex = 0
lock_taken(w) == w

GatherLock(w) ==
  /\ pc = "gather"
  /\ wpc[w] = "lock"
  /\ lock_available(w)
  /\ mutex' = lock_taken(w)
  /\ wpc' = [wpc EXCEPT ![w] = "locked"]
  /\ access' = {}
  /\ UNCHANGED <<inputVars, artVars, lookup, live, handle, mgr, pc, pending, wres,
                 method_transforms, gatherLog, applyVars, metrics>>

(* method_transforms->emplace_back(std::move(mt)), then the lock_guard     *)
(* goes out of scope.                                                      *)
GatherAppend(w) ==
  /\ pc = "gather"
  /\ wpc[w] = "locked"
  /\ method_transforms' = Append(method_transforms, wres[w])
  /\ access' = {Access("method_transforms", "vector", Len(method_transforms) + 1,
                       wres[w].method, mutex = w)}
  /\ mutex' = IF mutex = w THEN 0 ELSE mutex
  /\ wpc' = [wpc EXCEPT ![w] = "idle"]
  /\ wres' = [wres EXCEPT ![w] = <<>>]
  /\ UNCHANGED <<inputVars, artVars, lookup, live, handle, mgr, pc, pending, gatherLog,
                 applyVars, metrics>>

(* walk::parallel::methods returns when every method was visited. *)
GatherJoin ==
  /\ pc = "gather"
  /\ pending = {}
  /\ \A w \in Workers : wpc[w] = "idle"
  /\ pc' = "apply"
  /\ curDex' = 1
  /\ phase' = "start"
  /\ access' = {}
  /\ UNCHANGED <<inputVars, artVars, lookup, live, handle, mgr, gatherVars, perDex, tcount,
                 stats, applied, getters, dexMrefs, metrics>>

(* per_class_transforms[cls]: the entries of method_transforms of the      *)
(* class, as indices, in the order of method_transforms.                   *)
per_class_transforms(mts, cls) ==
  SelectSeq([i \in 1..Len(mts) |-> i], LAMBDA i : ClassOf(mts[i].method) = cls)

(* per_dex_transforms before the sort. *)
per_dex_transforms(mts, dex_file) ==
  Concat([k \in 1..Len(dex_file) |-> per_class_transforms(mts, dex_file[k])])

methods_in_order(mts, idxs) ==
  SortedSeq({mts[idxs[k]].method : k \in 1..Len(idxs)})

entries_of(mts, idxs, ms) ==
  [k \in 1..Len(ms) |-> CHOOSE i \in Range(idxs) : mts[i].method = ms[k]]

(* sort_by_method, were per_dex_transforms left in the order of arrival. *)
sort_skipped(mts, idxs) == idxs

(* std::sort by compare_dexmethods(a->method, b->method). *)
sort_by_method(mts, idxs) == entries_of(mts, idxs, methods_in_order(mts, idxs))

(* The order the loop of apply_transforms_dex visits them: rbegin..rend. *)
iteration_order(sorted) == Reverse(sorted)

(* over_budget, were the budget never tested. *)
over_budget_never(transform_count, size, max_transforms_per_dex) == FALSE

(* The budget test of apply_transforms_dex. *)
over_budget(transform_count, size, max_transforms_per_dex) ==
  transform_count + size > max_transforms_per_dex

(* budget_break, were the loop to go on with the next candidate. *)
budget_continue(rest) == Tail(rest)

(* What is left of the loop after the break of the budget test. *)
budget_break(rest) == <<>>

ApplyDexStart ==
  /\ pc = "apply"
  /\ phase = "start"
  /\ curDex <= Len(DexFiles(stores))
  /\ perDex' = iteration_order(
                 sort_by_method(method_transforms,
                   per_dex_transforms(method_transforms,
                                      DexFiles(stores)[curDex])))
  /\ tcount' = 0
  /\ phase' = "loop"
  /\ access' = {}
  /\ UNCHANGED <<inputVars, artVars, lookup, live, handle, mgr, pc, gatherVars, curDex, stats,
                 applied, getters, dexMrefs, metrics>>

AppliedEntry(mt, dex, count, r) ==
  [method |-> mt.method, dex |-> dex, count |-> count, log |-> r.log]

(* stats += apply_transform(pass_state, *mt, transform_count), which ends  *)
(* in method->set_code(std::move(mt.code_copy)).                           *)
ApplyOne ==
  /\ pc = "apply"
  /\ phase = "loop"
  /\ perDex # <<>>
  /\ \E mt \in {method_transforms[Head(perDex)]} :
       /\ ~over_budget(tcount, Len(mt.transforms), config.transforms_per_dex)
       /\ \E r \in {apply_transform(mt, tcount)} :
            /\ live' = [live EXCEPT ![mt.method] = r.code]
            /\ stats' = StatsPlus(stats, r.stats)
            /\ applied' = Append(applied, AppliedEntry(mt, curDex, tcount, r))
            /\ getters' = getters \o r.getters
            /\ dexMrefs' = [dexMrefs EXCEPT ![curDex] = @ \cup r.mrefs]
       /\ tcount' = tcount + Len(mt.transforms)
  /\ perDex' = Tail(perDex)
  /\ access' = {}
  /\ UNCHANGED <<inputVars, artVars, lookup, handle, mgr, pc, gatherVars, curDex, phase, metrics>>

(* The loop over per_dex_transforms ends: at its end, or at the break. *)
ApplyDexEnd ==
  /\ pc = "apply"
  /\ phase = "loop"
  /\ \/ perDex = <<>>
     \/ /\ perDex # <<>>
        /\ over_budget(tcount, Len(method_transforms[Head(perDex)].transforms),
                       config.transforms_per_dex)
  /\ \E rest \in {IF perDex = <<>> THEN <<>> ELSE budget_break(perDex)} :
       /\ curDex' = IF rest = <<>> THEN curDex + 1 ELSE curDex
       /\ phase' = IF rest = <<>> THEN "start" ELSE "loop"
       /\ perDex' = rest
  /\ access' = {}
  /\ UNCHANGED <<inputVars, artVars, lookup, live, handle, mgr, pc, gatherVars, tcount, stats,
                 applied, getters, dexMrefs, metrics>>

(* The three incr_metric calls that end run_pass. *)
RunPassEnd ==
  /\ pc = "apply"
  /\ phase = "start"
  /\ curDex > Len(DexFiles(stores))
  /\ metrics' = stats
  /\ pc' = "done"
  /\ access' = {}
  /\ UNCHANGED <<inputVars, artVars, lookup, live, handle, mgr, gatherVars, applyVars>>

(***************************************************************************)
(* ArtProfileWriterPass::eval_pass and run_pass.                           *)
(***************************************************************************)
ArtEvalPass ==
  /\ active = "art"
  /\ pc = "idle"
  /\ handle = Null
  /\ IF art.never_inline_attach_annotations
       THEN \E r \in {reserve_refs(mgr, "art", 0, 1, 0)} :
              /\ handle' = r.handle
              /\ mgr' = r.mgr
     ELSE UNCHANGED <<handle, mgr>>
  /\ pc' = "evaluated"
  /\ access' = {}
  /\ UNCHANGED <<inputVars, artVars, ccbVars, pending, metrics>>

(* always_assert(m_reserved_refs_handle) fails. *)
ArtRunPassAssertFails ==
  /\ active = "art"
  /\ pc \in {"idle", "done"}
  /\ art.never_inline_attach_annotations
  /\ handle = Null
  /\ pc' = "aborted"
  /\ access' = {}
  /\ UNCHANGED <<inputVars, artVars, ccbVars, handle, mgr, pending, metrics>>

(* art_run_pass_release, were the release left to the end of run_pass. *)
art_run_pass_holds(attach_annotations, h, m) == [handle |-> h, mgr |-> m]

(* The reservation after the first statement of run_pass. *)
art_run_pass_release(attach_annotations, h, m) ==
  IF attach_annotations
    THEN [handle |-> Null, mgr |-> release_reserved_refs(m, h)]
  ELSE [handle |-> h, mgr |-> m]

(* The methods walk::code and walk::parallel::code visit. *)
code_methods(ms) == {m \in DOMAIN ms : ms[m].has_code}

ArtRunPassBegin ==
  /\ active = "art"
  /\ pc = "evaluated"
  /\ \E r \in {art_run_pass_release(art.never_inline_attach_annotations,
                                    handle, mgr)} :
       /\ handle' = r.handle
       /\ mgr' = r.mgr
  /\ pc' = IF art.never_compile_threshold > -1 THEN "never_compile" ELSE "count"
  /\ pending' = code_methods(ameth)
  /\ access' = {}
  /\ UNCHANGED <<inputVars, artVars, ccbVars, metrics>>

Atomic(name, m) == Access(name, "atomic", 0, m, FALSE)

(* The writes of the callback of never_compile to what the workers share. *)
never_compile_writes(d, m) ==
  (IF d = "skip" THEN {} ELSE {Atomic("never_compile_methods", m)})
    \cup (IF d = "already_never_compile"
            THEN {Atomic("methods_already_never_compile", m)} ELSE {})
    \cup (IF d \in {"combined", "attached"}
            THEN {Atomic("methods_annotation_attached", m)} ELSE {})
    \cup (IF d = "attached"
            THEN {Access("baseline_profile.methods", "element", m, m, FALSE)}
          ELSE {})

never_compile_counters(c, d) ==
  Bump(Bump(Bump(c, "never_compile_methods", IF d = "skip" THEN 0 ELSE 1),
            "methods_already_never_compile",
            IF d = "already_never_compile" THEN 1 ELSE 0),
       "methods_annotation_attached",
       IF d \in {"combined", "attached"} THEN 1 ELSE 0)

(* The callback of the parallel walk of never_compile on one method. *)
NeverCompileVisit(w) ==
  /\ pc = "never_compile"
  /\ \E m \in pending :
       /\ pending' = pending \ {m}
       /\ \E d \in {never_compile_decision(art.never_compile_threshold, profile,
                                           ameth[m], m)} :
            /\ counters' = never_compile_counters(counters, d)
            /\ ameth' = IF d \in {"combined", "attached"}
                          THEN [ameth EXCEPT ![m] = annotate(@, "NeverCompile")]
                        ELSE ameth
            /\ profile' = IF d = "attached"
                            THEN [profile EXCEPT ![m].hot = hot_after_attach(@)]
                          ELSE profile
            /\ access' = never_compile_writes(d, m)
  /\ UNCHANGED <<inputVars, callees, cursor, ccbVars, handle, mgr, pc, metrics>>

NeverCompileJoin ==
  /\ pc = "never_compile"
  /\ pending = {}
  /\ pc' = "count"
  /\ pending' = code_methods(ameth)
  /\ access' = {}
  /\ UNCHANGED <<inputVars, artVars, ccbVars, handle, mgr, metrics>>

count_counters(c, in_profile, compiled, ecu) ==
  Bump(Bump(Bump(c, "methods_with_baseline_profile_code_units",
                 IF in_profile THEN ecu ELSE 0),
            "compiled", IF compiled THEN 1 ELSE 0),
       "compiled_code_units", IF compiled THEN ecu ELSE 0)

count_writes(in_profile, compiled, m) ==
  (IF in_profile
     THEN {Atomic("methods_with_baseline_profile_code_units", m)} ELSE {})
    \cup (IF compiled
            THEN {Atomic("compiled", m), Atomic("compiled_code_units", m)}
          ELSE {})

(* The callback of the parallel walk of run_pass that counts code units. *)
CountVisit(w) ==
  /\ pc = "count"
  /\ \E m \in pending :
       /\ pending' = pending \ {m}
       /\ counters' = count_counters(counters, m \in DOMAIN profile,
                                     is_compiled(profile, ameth, m), ameth[m].ecu)
       /\ access' = count_writes(m \in DOMAIN profile,
                                 is_compiled(profile, ameth, m), m)
  /\ UNCHANGED <<inputVars, ameth, profile, callees, cursor, ccbVars, handle, mgr,
                 pc, metrics>>

(* The metrics of run_pass, then its return or the call of never_inline. *)
CountJoin ==
  /\ pc = "count"
  /\ pending = {}
  /\ IF ~art.never_inline_estimate /\ ~art.never_inline_attach_annotations
       THEN /\ pc' = "done"
            /\ metrics' = counters
            /\ UNCHANGED pending
     ELSE /\ pc' = "never_inline"
          /\ pending' = code_methods(ameth)
          /\ UNCHANGED metrics
  /\ access' = {}
  /\ UNCHANGED <<inputVars, artVars, ccbVars, handle, mgr>>

never_inline_writes(r, m) ==
  {Access("estimated_code_units", "insert_only", m, m, FALSE)}
    \cup (IF r.too_large = 1 THEN {Atomic("callers_too_large", m)} ELSE {})
    \cup {Access("hot_hot_callees", "insert_only", c, m, FALSE) : c \in r.hot_hot}
    \cup {Access("hot_cold_callees", "insert_only", c, m, FALSE) : c \in r.hot_cold}

(* never_inline_callees, were every callee also put with the cold ones. *)
never_inline_callees_all_cold(cs, r, m, ecu) ==
  [estimated_code_units |-> cs.estimated_code_units @@ (m :> ecu),
   hot_hot |-> cs.hot_hot \cup r.hot_hot,
   hot_cold |-> cs.hot_cold \cup r.hot_hot \cup r.hot_cold]

never_inline_callees(cs, r, m, ecu) ==
  [estimated_code_units |-> cs.estimated_code_units @@ (m :> ecu),
   hot_hot |-> cs.hot_hot \cup r.hot_hot,
   hot_cold |-> cs.hot_cold \cup r.hot_cold]

(* The callback of the parallel walk of never_inline on one caller. *)
NeverInlineVisit(w) ==
  /\ pc = "never_inline"
  /\ \E m \in pending :
       /\ pending' = pending \ {m}
       /\ \E r \in {never_inline_analysis(profile, ameth, m)} :
            /\ callees' = never_inline_callees(callees, r, m, ameth[m].ecu)
            /\ counters' = Bump(counters, "callers_too_large", r.too_large)
            /\ access' = never_inline_writes(r, m)
  /\ UNCHANGED <<inputVars, ameth, profile, cursor, ccbVars, handle, mgr, pc,
                 metrics>>

NeverInlineJoin ==
  /\ pc = "never_inline"
  /\ pending = {}
  /\ pc' = "attach"
  /\ cursor' = 1
  /\ access' = {}
  /\ UNCHANGED <<inputVars, ameth, profile, callees, counters, ccbVars, handle, mgr,
                 pending, metrics>>

(* The callback of the second, sequential walk of never_inline on the      *)
(* next method of the scope.                                               *)
NeverInlineAttach ==
  /\ pc = "attach"
  /\ cursor <= Len(ameth)
  /\ IF ameth[cursor].has_code
       THEN \E d \in {never_inline_decision(callees, ameth[cursor], cursor)} :
              /\ counters' = IF d = "skip" THEN counters ELSE Bump(counters, d, 1)
              /\ ameth' = IF /\ d = "callees_annotation_attached"
                             /\ art.never_inline_attach_annotations
                            THEN [ameth EXCEPT ![cursor] = annotate(@, "NeverInline")]
                          ELSE ameth
     ELSE UNCHANGED <<counters, ameth>>
  /\ cursor' = cursor + 1
  /\ access' = {}
  /\ UNCHANGED <<inputVars, profile, callees, ccbVars, handle, mgr, pc, pending,
                 metrics>>

(* The metrics that end never_inline and with it run_pass. *)
ArtRunPassEnd ==
  /\ pc = "attach"
  /\ cursor > Len(ameth)
  /\ pc' = "done"
  /\ metrics' = counters
  /\ access' = {}
  /\ UNCHANGED <<inputVars, artVars, ccbVars, handle, mgr, pending>>

Next ==
  \/ EvalPass
  \/ RunPassAssertFails
  \/ RunPassBegin
  \/ \E w \in Workers : GatherVisit(w)
  \/ \E w \in Workers : GatherLock(w)
  \/ \E w \in Workers : GatherAppend(w)
  \/ GatherJoin
  \/ ApplyDexStart
  \/ ApplyOne
  \/ ApplyDexEnd
  \/ RunPassEnd
  \/ ArtEvalPass
  \/ ArtRunPassAssertFails
  \/ ArtRunPassBegin
  \/ \E w \in Workers : NeverCompileVisit(w)
  \/ NeverCompileJoin
  \/ \E w \in Workers : CountVisit(w)
  \/ CountJoin
  \/ \E w \in Workers : NeverInlineVisit(w)
  \/ NeverInlineJoin
  \/ NeverInlineAttach
  \/ ArtRunPassEnd

Spec == Init /\ [][Next]_vars

(***************************************************************************)
(* One method on its own: gather_possible_transformations and              *)
(* apply_transform of src/unnamed/part_005 on hand-built code, one         *)
(* statement group at a time, and the cleanup of the cfg after free edits. *)
(***************************************************************************)
MaxEdits == 2

HandConfigs ==
  [min_cases : 1..MaxMinCases,
   max_cases : MaxCasesChoices,
   consider_external_classes : BOOLEAN]

(* The code whose cfg is edited freely. *)
EditedIds == {Len(Catalog) + 1}

(* Every variable of the passes, at rest. *)
passVars ==
  <<active, art, ameth, profile, callees, counters, cursor, config, lookup,
    stores, live, handle, mgr, pc, pending, wpc, wres, mutex, access,
    method_transforms, gatherLog, curDex, phase, perDex, tcount, stats,
    applied, getters, dexMrefs, metrics>>

NoPass ==
  /\ active = "none"
  /\ config = [min_cases |-> 1, max_cases |-> 2, transforms_per_dex |-> 1,
               consider_external_classes |-> FALSE]
  /\ art = [never_inline_attach_annotations |-> FALSE,
            never_inline_estimate |-> FALSE, never_compile_threshold |-> -1]
  /\ stores = <<>>
  /\ live = <<>>
  /\ ameth = <<>>
  /\ profile = <<>>
  /\ callees = [estimated_code_units |-> <<>>, hot_hot |-> {}, hot_cold |-> {}]
  /\ counters = ZeroCounters
  /\ cursor = 0
  /\ lookup = "unread"
  /\ handle = Null
  /\ mgr = [reserved |-> {}, next |-> 1, released |-> <<>>]
  /\ pc = "idle"
  /\ pending = {}
  /\ wpc = [w \in Workers |-> "idle"]
  /\ wres = [w \in Workers |-> <<>>]
  /\ mutex = 0
  /\ access = {}
  /\ method_transforms = <<>>
  /\ gatherLog = <<>>
  /\ curDex = 0
  /\ phase = "none"
  /\ perDex = <<>>
  /\ tcount = 0
  /\ stats = ZeroStats
  /\ applied = <<>>
  /\ getters = <<>>
  /\ dexMrefs = <<>>
  /\ metrics = <<>>

(* The state apply_transform starts its loop in. *)
ApplyStart(cfg, transform_count) ==
  [cfg |-> cfg, transform_count |-> transform_count, string_tree_size |-> 0,
   getters |-> <<>>, mrefs |-> {}, log |-> <<>>, prunes |-> 0]

NothingFound == [transforms |-> <<>>, runs |-> {}, examined |-> {}]

CfgLab(mode, shape, pass_state, code) ==
  [unit |-> "cfg", mode |-> mode, shape |-> shape, pass_state |-> pass_state,
   stage |-> IF mode = "pass" THEN "loaded" ELSE "editing",
   code |-> code, copy |-> code, found |-> NothingFound, todo |-> <<>>,
   st |-> ApplyStart(code, 0), unpruned |-> code, again |-> code,
   steps |-> <<>>, edits |-> 0]

InitCfg ==
  /\ NoPass
  /\ \/ \E s \in HandIds, c \in HandConfigs : lab = CfgLab("pass", s, c, InitCode(s))
     \/ \E s \in EditedIds :
          lab = CfgLab("edits", s,
                       [min_cases |-> 1, max_cases |-> 2,
                        consider_external_classes |-> FALSE], InitCode(s))

(* walk::parallel::methods calls should_consider_method first. *)
LabConsider ==
  /\ lab.stage = "loaded"
  /\ lab' = [lab EXCEPT !.stage =
                IF should_consider_method(lab.pass_state, lab.code)
                  THEN "considered" ELSE "skipped"]
  /\ UNCHANGED passVars

(* gather_possible_transformations on the method. *)
LabGather ==
  /\ lab.stage = "considered"
  /\ \E g \in {gather_possible_transformations(lab.pass_state, lab.code)} :
       lab' = [lab EXCEPT !.stage = IF g.found.transforms = <<>>
                                     THEN "nothing" ELSE "gathered",
                          !.copy = g.code_copy,
                          !.found = g.found,
                          !.todo = g.found.transforms,
                          !.st = ApplyStart(g.code_copy, 0),
                          !.steps = Append(@, "gather")]
  /\ UNCHANGED passVars

(* One round of the loop of apply_transform over mt.transforms. *)
LabApply ==
  /\ lab.stage = "gathered"
  /\ lab.todo # <<>>
  /\ lab' = [lab EXCEPT !.st = apply_one_transform(1, lab.st, Head(lab.todo)),
                        !.todo = Tail(@),
                        !.steps = Append(@, "transform")]
  /\ UNCHANGED passVars

(* The end of apply_transform up to the metrics: the cleanup. *)
LabFinish ==
  /\ lab.stage = "gathered"
  /\ lab.todo = <<>>
  /\ \E r \in {apply_finish(num_const_class_opcodes(lab.copy), lab.st)} :
       lab' = [lab EXCEPT !.stage = "finished",
                          !.st = [@ EXCEPT !.cfg = r.code, !.prunes = r.prunes],
                          !.unpruned = r.unpruned,
                          !.steps = Append(@, "remove_unreachable_blocks")]
  /\ UNCHANGED passVars

(* method->set_code(std::move(mt.code_copy)) *)
LabSetCode ==
  /\ lab.stage = "finished"
  /\ lab' = [lab EXCEPT !.stage = "swapped",
                        !.code = lab.st.cfg,
                        !.steps = Append(@, "set_code")]
  /\ UNCHANGED passVars

(* A caller of the cfg redirects an edge, or replaces the if that ends a   *)
(* block by instructions that do not branch.                               *)
LabEdit ==
  /\ lab.stage = "editing"
  /\ lab.edits < MaxEdits
  /\ \/ \E b \in lab.st.cfg.blocks :
          \E i \in 1..Len(lab.st.cfg.succs[b]) :
            \E tgt \in lab.st.cfg.blocks :
              lab' = [lab EXCEPT !.st.cfg.succs[b][i] = set_edge_target(@, tgt),
                                 !.edits = @ + 1,
                                 !.steps = Append(@, "set_edge_target")]
     \/ \E b \in lab.st.cfg.blocks :
          /\ lab.st.cfg.last[b] = "if"
          /\ lab' = [lab EXCEPT !.st.cfg = replace_insns(@, b),
                                !.edits = @ + 1,
                                !.steps = Append(@, "replace_insns")]
  /\ UNCHANGED passVars

(* remove_unreachable_blocks after the edits. *)
LabCleanup ==
  /\ lab.stage = "editing"
  /\ lab' = [lab EXCEPT !.stage = "pruned",
                        !.unpruned = lab.st.cfg,
                        !.st.cfg = remove_unreachable_blocks(@),
                        !.st.prunes = @ + 1,
                        !.steps = Append(@, "remove_unreachable_blocks")]
  /\ UNCHANGED passVars

(* remove_unreachable_blocks a second time, right after the first. *)
LabCleanupAgain ==
  /\ lab.stage \in {"pruned", "swapped"}
  /\ Len(lab.steps) > 0
  /\ lab' = [lab EXCEPT !.stage = "cleaned",
                        !.again = remove_unreachable_blocks(lab.st.cfg)]
  /\ UNCHANGED passVars

NextCfg ==
  \/ LabConsider
  \/ LabGather
  \/ LabApply
  \/ LabFinish
  \/ LabSetCode
  \/ LabEdit
  \/ LabCleanup
  \/ LabCleanupAgain

SpecCfg == InitCfg /\ [][NextCfg]_vars

(***************************************************************************)
(* src/service/method-dedup/ConstantLifting.cpp: lift_constants_from on    *)
(* one annotated method and one caller of it, one loop round at a time.    *)
(* The entry block of a method is the sequence of its instructions; an     *)
(* iterator is a position in it, an instruction is known by its id.        *)
(***************************************************************************)
MaxConsts == 3

MaxParams == 2

MaxSites == 2

IRInstruction(id, op, dest, srcs, lit) ==
  [id |-> id, op |-> op, dest |-> dest, srcs |-> srcs, lit |-> lit,
   method |-> "none"]

make_invoke(id, callee, args) ==
  [IRInstruction(id, "invoke", Null, args, Null) EXCEPT !.method = callee]

is_a_load_param(op) == op \in {"load-param", "load-param-object"}

(* Block::get_last_param_loading_insn: the position of the last of the     *)
(* leading load-param instructions, 0 (end()) when the block has none.     *)
get_last_param_loading_insn(insns) ==
  Cardinality({k \in 1..Len(insns) :
                 \A i \in 1..k : is_a_load_param(insns[i].op)})

get_first_non_param_loading_insn(insns) ==
  get_last_param_loading_insn(insns) + 1

insert_after(insns, pos, new) ==
  SubSeq(insns, 1, pos) \o new \o SubSeq(insns, pos + 1, Len(insns))

insert_before(insns, pos, new) ==
  SubSeq(insns, 1, pos - 1) \o new \o SubSeq(insns, pos, Len(insns))

has_move_result_pseudo(op) == op = "const-string"

(* remove_insn takes the instruction at pos out, with the                  *)
(* move-result-pseudo that belongs to it.                                  *)
remove_insn(insns, pos) ==
  SubSeq(insns, 1, pos - 1)
    \o SubSeq(insns,
              IF has_move_result_pseudo(insns[pos].op) THEN pos + 2 ELSE pos + 1,
              Len(insns))

(* find_insn: the position of the instruction with this id. *)
find_insn(insns, id) == CHOOSE k \in 1..Len(insns) : insns[k].id = id

Numbered(insns, from) ==
  [k \in 1..Len(insns) |-> [insns[k] EXCEPT !.id = from + k - 1]]

(* One value of the constantValues annotation. *)
ConstantValue(kind, lit) == [kind |-> kind, lit |-> lit, param_reg |-> Null]

is_invalid(const_val) == const_val.kind = "invalid"

is_int_value(const_val) == const_val.kind = "int"

ValidBefore(cv, k) == Cardinality({j \in 1..(k - 1) : ~is_invalid(cv[j])})

ValidBeforeKinds(kinds, k) ==
  Cardinality({j \in 1..(k - 1) : kinds[j] # "invalid"})

(* ConstantValues(type_tags, kinds_str, vals_str, threshold, cfg): every   *)
(* valid value gets its parameter register from cfg.allocate_temp().       *)
ConstantValues(kinds, regs) ==
  [k \in 1..Len(kinds) |->
     [kind |-> kinds[k], lit |-> 10 + k,
      param_reg |-> IF kinds[k] = "invalid" THEN Null
                    ELSE regs + ValidBeforeKinds(kinds, k)]]

get_constant_types(cv) ==
  SelectSeq([k \in 1..Len(cv) |-> cv[k].kind], LAMBDA x : x # "invalid")

const_vals_size(cv) == Len(cv)

(* The instructions that load const_val into register dest. *)
make_load_const(const_val, dest) ==
  IF is_int_value(const_val)
    THEN <<IRInstruction(0, "const", dest, <<>>, const_val.lit)>>
    ELSE <<IRInstruction(0, "const-string", Null, <<>>, const_val.lit),
           IRInstruction(0, "move-result-pseudo-object", dest, <<>>, Null)>>

RECURSIVE make_const_loads_from(_, _, _)
make_const_loads_from(cv, const_regs, k) ==
  IF k > Len(cv) THEN <<>>
  ELSE (IF is_invalid(cv[k]) THEN <<>>
        ELSE make_load_const(cv[k], const_regs[ValidBefore(cv, k) + 1]))
       \o make_const_loads_from(cv, const_regs, k + 1)

make_const_loads(cv, const_regs) == make_const_loads_from(cv, const_regs, 1)

(* The body of the annotated method: where it loads the constants. *)
BodyKinds == {"in_order", "reversed", "repeated", "absent"}

RECURSIVE LoadsOf(_, _, _)
LoadsOf(cv, order, dest) ==
  IF order = <<>> THEN <<>>
  ELSE (IF is_invalid(cv[Head(order)]) THEN <<>>
        ELSE make_load_const(cv[Head(order)], dest)
               \o <<IRInstruction(0, "use", Null, <<dest>>, Null)>>)
       \o LoadsOf(cv, Tail(order), dest)

BodyOrder(body, n) ==
  CASE body = "in_order" -> [k \in 1..n |-> k]
    [] body = "reversed" -> [k \in 1..n |-> n + 1 - k]
    [] body = "repeated" -> [k \in 1..(2 * n) |-> ((k - 1) % n) + 1]
    [] OTHER -> <<>>

(* The entry block of the annotated method: params load-params, a          *)
(* constant of its own, the loads of the annotated constants, the return.  *)
CalleeInsns(params, body, cv) ==
  Numbered([k \in 1..params |->
              IRInstruction(0, "load-param", k - 1, <<>>, Null)]
           \o <<IRInstruction(0, "const", params + 1, <<>>, 99)>>
           \o LoadsOf(cv, BodyOrder(body, Len(cv)), params)
           \o <<IRInstruction(0, "return", Null, <<params + 1>>, Null)>>, 1)

RECURSIVE CallsOf(_, _)
CallsOf(sites, params) ==
  IF sites = 0 THEN <<>>
  ELSE <<make_invoke(0, "callee", [k \in 1..params |-> k - 1]),
         IRInstruction(0, "move-result", params, <<>>, Null)>>
       \o CallsOf(sites - 1, params)

(* The caller: it sets the arguments and calls the method sites times. *)
CallerInsns(params, sites) ==
  Numbered([k \in 1..params |-> IRInstruction(0, "const", k - 1, <<>>, 0)]
           \o CallsOf(sites, params)
           \o <<IRInstruction(0, "return", Null, <<params>>, Null)>>, 1)

(* The registers the instructions read or write. *)
RegistersUsed(insns) ==
  UNION {({insns[k].dest} \ {Null}) \cup Range(insns[k].srcs) :
           k \in 1..Len(insns)}

(* collect_constant_loads: the loads of the annotated constants in the     *)
(* code, each with its constant, its instruction and its destination.      *)
IsLoadOf(insns, k, const_val) ==
  /\ ~is_invalid(const_val)
  /\ insns[k].op = (IF is_int_value(const_val) THEN "const" ELSE "const-string")
  /\ insns[k].lit = const_val.lit

LoadDest(insns, k) ==
  IF has_move_result_pseudo(insns[k].op) THEN insns[k + 1].dest ELSE insns[k].dest

RECURSIVE collect_from(_, _, _)
collect_from(insns, cv, k) ==
  IF k > Len(insns) THEN <<>>
  ELSE (IF \E j \in 1..Len(cv) : IsLoadOf(insns, k, cv[j])
          THEN <<[const_val |-> cv[CHOOSE j \in 1..Len(cv) : IsLoadOf(insns, k, cv[j])],
                  insn |-> insns[k].id,
                  dest |-> LoadDest(insns, k)]>>
          ELSE <<>>)
       \o collect_from(insns, cv, k + 1)

collect_constant_loads(insns, cv) == collect_from(insns, cv, 1)

(* The invoke instructions of the caller that call the lifted method. *)
collect_call_refs(insns) ==
  SelectSeq([k \in 1..Len(insns) |-> IF insns[k].op = "invoke" THEN insns[k].id ELSE 0],
            LAMBDA x : x # 0)

LiftLab(cv, params, body, sites, needs_stub, callee, caller) ==
  [unit |-> "lift", stage |-> "start", const_vals |-> cv, params |-> params,
   body |-> body, needs_stub |-> needs_stub,
   callee |-> [insns |-> callee, regs |-> params + 2 + Len(get_constant_types(cv)),
               nargs |-> params, last_loading |-> 0,
               next_id |-> Len(callee) + 1],
   original |-> callee,
   const_loads |-> <<>>, i |-> 1,
   caller |-> [insns |-> caller, regs |-> params + 1,
               next_id |-> Len(caller) + 1],
   caller_original |-> caller,
   call_sites |-> <<>>, const_regs |-> <<>>, returned |-> <<>>,
   patched |-> <<>>, stub_methods |-> 0, lifted |-> FALSE]

InitLift ==
  /\ NoPass
  /\ \E n \in 1..MaxConsts, params \in 0..MaxParams, body \in BodyKinds,
        sites \in 1..MaxSites, needs_stub \in BOOLEAN :
       \E kinds \in [1..n -> {"int", "string", "invalid"}] :
         \E cv \in {ConstantValues(kinds, params + 2)} :
           lab = LiftLab(cv, params, body, sites, needs_stub,
                         CalleeInsns(params, body, cv),
                         CallerInsns(params, sites))

(* The loop of lines 71-165 up to the new proto of the method: without a   *)
(* matching constant load the method is left alone.                        *)
LiftBegin ==
  /\ lab.unit = "lift"
  /\ lab.stage = "start"
  /\ \E loads \in {collect_constant_loads(lab.callee.insns, lab.const_vals)} :
       lab' = IF loads = <<>>
                THEN [lab EXCEPT !.stage = "not_lifted"]
                ELSE [lab EXCEPT
                        !.stage = "params",
                        !.const_loads = loads,
                        !.callee.nargs = @ + Len(get_constant_types(lab.const_vals)),
                        !.callee.last_loading =
                          get_last_param_loading_insn(lab.callee.insns)]
  /\ UNCHANGED passVars

load_type_tag_param(const_val, id) ==
  IRInstruction(id,
                IF is_int_value(const_val) THEN "load-param" ELSE "load-param-object",
                const_val.param_reg, <<>>, Null)

param_load_inserted(code, const_val) ==
  IF code.last_loading # 0
    THEN insert_after(code.insns, code.last_loading,
                      <<load_type_tag_param(const_val, code.next_id)>>)
    ELSE insert_before(code.insns, get_first_non_param_loading_insn(code.insns),
                       <<load_type_tag_param(const_val, code.next_id)>>)

(* insert_param_load, were last_loading not read again after the insert. *)
insert_param_load_stale(code, const_val) ==
  IF is_invalid(const_val) THEN code
  ELSE [code EXCEPT !.insns = param_load_inserted(code, const_val),
                    !.next_id = @ + 1]

(* One round of the loop of lines 128-147. *)
insert_param_load(code, const_val) ==
  IF is_invalid(const_val) THEN code
  ELSE [code EXCEPT !.insns = param_load_inserted(code, const_val),
                    !.next_id = @ + 1,
                    !.last_loading = get_last_param_loading_insn(
                                       param_load_inserted(code, const_val))]

LiftParamLoad ==
  /\ lab.unit = "lift"
  /\ lab.stage = "params"
  /\ lab' = [lab EXCEPT
               !.callee = insert_param_load(@, lab.const_vals[lab.i]),
               !.i = @ + 1,
               !.stage = IF lab.i = Len(lab.const_vals) THEN "loads" ELSE @]
  /\ UNCHANGED passVars

move_const_arg(load, id) ==
  IRInstruction(id, IF is_int_value(load.const_val) THEN "move" ELSE "move-object",
                load.dest, <<load.const_val.param_reg>>, Null)

(* One round of the loop of lines 150-161. *)
replace_const_load(code, load) ==
  [code EXCEPT
     !.insns = remove_insn(insert_before(code.insns, find_insn(code.insns, load.insn),
                                         <<move_const_arg(load, code.next_id)>>),
                           find_insn(code.insns, load.insn) + 1),
     !.next_id = @ + 1]

LiftReplaceLoad ==
  /\ lab.unit = "lift"
  /\ lab.stage = "loads"
  /\ lab' = [lab EXCEPT
               !.callee = replace_const_load(@, Head(lab.const_loads)),
               !.const_loads = Tail(@),
               !.stage = IF Len(lab.const_loads) = 1 THEN "sites" ELSE @,
               !.lifted = Len(lab.const_loads) = 1,
               !.call_sites = IF Len(lab.const_loads) = 1
                                THEN collect_call_refs(lab.caller.insns) ELSE @]
  /\ UNCHANGED passVars

(* Lines 186-199: the call goes to a stub with the arguments it had. *)
LiftStub ==
  /\ lab.unit = "lift"
  /\ lab.stage = "sites"
  /\ lab.needs_stub
  /\ \E pos \in {find_insn(lab.caller.insns, Head(lab.call_sites))} :
       lab' = [lab EXCEPT
                 !.caller.insns[pos] =
                   make_invoke(@.id, "stub", lab.caller.insns[pos].srcs),
                 !.stub_methods = @ + 1,
                 !.call_sites = Tail(@),
                 !.stage = IF Len(lab.call_sites) = 1 THEN "done" ELSE @]
  /\ UNCHANGED passVars

(* next_const_reg, were the first register taken again. *)
next_const_reg_reused(cfg, const_regs) ==
  IF const_regs = <<>> THEN allocate_temp(cfg)
  ELSE [reg |-> const_regs[1], cfg |-> cfg]

(* One round of the loop of lines 203-205. *)
next_const_reg(cfg, const_regs) == allocate_temp(cfg)

LiftAllocate ==
  /\ lab.unit = "lift"
  /\ lab.stage = "sites"
  /\ ~lab.needs_stub
  /\ Len(lab.const_regs) < const_vals_size(lab.const_vals)
  /\ \E a \in {next_const_reg(lab.caller, lab.const_regs)} :
       lab' = [lab EXCEPT
                 !.caller = a.cfg,
                 !.const_regs = Append(@, a.reg),
                 !.returned = Append(@, [reg |-> a.reg,
                                         used |-> RegistersUsed(lab.caller.insns)])]
  /\ UNCHANGED passVars

(* Lines 206-219 on the invoke at pos. *)
patch_call_site(code, pos, cv, const_regs) ==
  [code EXCEPT
     !.insns = [insert_before(code.insns, pos,
                              Numbered(make_const_loads(cv, const_regs),
                                       code.next_id))
                  EXCEPT ![pos + Len(make_const_loads(cv, const_regs))] =
                    make_invoke(@.id, "callee", @.srcs \o const_regs)],
     !.next_id = @ + Len(make_const_loads(cv, const_regs))]

LiftPatch ==
  /\ lab.unit = "lift"
  /\ lab.stage = "sites"
  /\ ~lab.needs_stub
  /\ Len(lab.const_regs) = const_vals_size(lab.const_vals)
  /\ \E pos \in {find_insn(lab.caller.insns, Head(lab.call_sites))} :
       lab' = [lab EXCEPT
                 !.caller = patch_call_site(@, pos, lab.const_vals, lab.const_regs),
                 !.patched = Append(@, [insn |-> Head(lab.call_sites),
                                        args |-> lab.caller.insns[pos].srcs,
                                        const_regs |-> lab.const_regs]),
                 !.const_regs = <<>>,
                 !.call_sites = Tail(@),
                 !.stage = IF Len(lab.call_sites) = 1 THEN "done" ELSE @]
  /\ UNCHANGED passVars

NextLift ==
  \/ LiftBegin
  \/ LiftParamLoad
  \/ LiftReplaceLoad
  \/ LiftStub
  \/ LiftAllocate
  \/ LiftPatch

SpecLift == InitLift /\ [][NextLift]_vars

(* Both services that edit a cfg. *)
SpecRegs == (InitCfg \/ InitLift) /\ [][NextCfg \/ NextLift]_vars

(***************************************************************************)
(* The constant domain and the fixpoint iterator that                      *)
(* gather_possible_transformations runs on the cfg (part_005:168-170),     *)
(* after sections 4.2 and 4.3 of the specification.                        *)
(***************************************************************************)
NumFlowRegs == 2

MaxValue == 2

MaxFlowEdges == 5

FlowRegs == 0..(NumFlowRegs - 1)

ConstKinds == {"int", "class", "string"}

Top == [tag |-> "Top", kind |-> "none", value |-> 0]

Bottom == [tag |-> "Bottom", kind |-> "none", value |-> 0]

Constant(kind, value) == [tag |-> "Constant", kind |-> kind, value |-> value]

ConstantDomain ==
  {Top, Bottom} \cup {Constant(k, v) : k \in ConstKinds, v \in 1..MaxValue}

(* join, were the join of two different constants the second of them. *)
join_keeps_right(a, b) ==
  IF a.tag = "Bottom" THEN b
  ELSE IF b.tag = "Bottom" THEN a
  ELSE IF a.tag = "Top" \/ b.tag = "Top" THEN Top
  ELSE b

(* The least upper bound of two abstract values. *)
join(a, b) ==
  IF a.tag = "Bottom" THEN b
  ELSE IF b.tag = "Bottom" THEN a
  ELSE IF a = b THEN a
  ELSE Top

(* a is below b in the lattice order. *)
leq(a, b) == a.tag = "Bottom" \/ b.tag = "Top" \/ a = b

ConstantEnvironment(v) == [r \in FlowRegs |-> v]

join_env(A, B) == [r \in FlowRegs |-> join(A[r], B[r])]

leq_env(A, B) == \A r \in FlowRegs : leq(A[r], B[r])

FlowInsn(op, dest, src, kind, value) ==
  [op |-> op, dest |-> dest, src |-> src, kind |-> kind, value |-> value]

(* The transfer function: a const-load sets its destination to the         *)
(* constant, a move copies the value of its source, another instruction    *)
(* with a destination sets it to Top, a read changes nothing.              *)
analyze_instruction(env, insn) ==
  CASE insn.op = "const" -> [env EXCEPT ![insn.dest] = Constant(insn.kind, insn.value)]
    [] insn.op = "move" -> [env EXCEPT ![insn.dest] = env[insn.src]]
    [] insn.op = "other" -> [env EXCEPT ![insn.dest] = Top]
    [] OTHER -> env

RECURSIVE analyze_node(_, _)
analyze_node(env, insns) ==
  IF insns = <<>> THEN env
  ELSE analyze_node(analyze_instruction(env, Head(insns)), Tail(insns))

(* The instructions of a block. *)
FlowPrograms ==
  <<<<>>,
    <<FlowInsn("const", 0, 0, "int", 1)>>,
    <<FlowInsn("const", 0, 0, "class", 1)>>,
    <<FlowInsn("move", 1, 0, "none", 0)>>,
    <<FlowInsn("other", 0, 0, "none", 0)>>,
    <<FlowInsn("move", 1, 0, "none", 0), FlowInsn("const", 0, 0, "int", MaxValue)>>,
    <<FlowInsn("read", 0, 1, "none", 0)>>>>

FlowEdge(src, tgt, type) == [src |-> src, tgt |-> tgt, type |-> type]

FlowGraph(n, edges) == [blocks |-> 0..(n - 1), edges |-> edges]

(* Flow graphs: a straight line, a diamond, a self loop, a loop of two     *)
(* blocks, a loop inside a loop, a loop with two entries, and a block      *)
(* whose last instruction can throw into a handler.                        *)
FlowCatalog ==
  <<FlowGraph(4, {FlowEdge(0, 1, "GOTO"), FlowEdge(1, 2, "GOTO"),
                  FlowEdge(2, 3, "GOTO")}),
    FlowGraph(4, {FlowEdge(0, 1, "BRANCH"), FlowEdge(0, 2, "GOTO"),
                  FlowEdge(1, 3, "GOTO"), FlowEdge(2, 3, "GOTO")}),
    FlowGraph(3, {FlowEdge(0, 1, "GOTO"), FlowEdge(1, 1, "BRANCH"),
                  FlowEdge(1, 2, "GOTO")}),
    FlowGraph(4, {FlowEdge(0, 1, "GOTO"), FlowEdge(1, 2, "GOTO"),
                  FlowEdge(2, 1, "BRANCH"), FlowEdge(2, 3, "GOTO")}),
    FlowGraph(4, {FlowEdge(0, 1, "GOTO"), FlowEdge(1, 2, "BRANCH"),
                  FlowEdge(2, 2, "BRANCH"), FlowEdge(2, 1, "GOTO"),
                  FlowEdge(1, 3, "GOTO")}),
    FlowGraph(4, {FlowEdge(0, 1, "BRANCH"), FlowEdge(0, 2, "GOTO"),
                  FlowEdge(1, 2, "GOTO"), FlowEdge(2, 1, "BRANCH"),
                  FlowEdge(1, 3, "GOTO")}),
    FlowGraph(4, {FlowEdge(0, 1, "GOTO"), FlowEdge(1, 2, "GOTO"),
                  FlowEdge(1, 3, "THROW"), FlowEdge(2, 3, "GOTO")})>>

FlowGraphs ==
  {g \in 1..Len(FlowCatalog) : Cardinality(FlowCatalog[g].edges) <= MaxFlowEdges}

(* The evaluations of blocks the iterator is allowed. *)
IterationCap == 1 + (4 * NumFlowRegs + 1) * MaxFlowEdges

Front(s) == SubSeq(s, 1, Len(s) - 1)

(* What the edge e hands to its target: the exit of its source, for an     *)
(* exception edge the environment at the throwing instruction.             *)
edge_state(e, entry, exit, prog) ==
  IF e.type = "THROW"
    THEN analyze_node(entry[e.src], Front(FlowPrograms[prog[e.src]]))
    ELSE exit[e.src]

RECURSIVE join_edges(_, _, _, _, _)
join_edges(es, acc, entry, exit, prog) ==
  IF es = {} THEN acc
  ELSE \* the join is commutative: any order of the edges
       LET e == CHOOSE x \in es : TRUE
       IN  join_edges(es \ {e}, join_env(acc, edge_state(e, entry, exit, prog)),
                      entry, exit, prog)

(* entry(b): the join over the edges into b, for the entry block joined    *)
(* with the initial environment of run().                                  *)
entry_state(g, b, seed, entry, exit, prog) ==
  join_edges({e \in FlowCatalog[g].edges : e.tgt = b},
             IF b = 0 THEN seed ELSE ConstantEnvironment(Bottom),
             entry, exit, prog)

successors(g, b) == {e.tgt : e \in {x \in FlowCatalog[g].edges : x.src = b}}

(* enqueue_successors, were the successors of a changed block left out. *)
enqueue_successors_skipped(worklist, g, b, changed) == worklist \ {b}

(* The worklist after block b is evaluated. *)
enqueue_successors(worklist, g, b, changed) ==
  (worklist \ {b}) \cup (IF changed THEN successors(g, b) ELSE {})

FlowLab(g, prog, seed) ==
  [unit |-> "flow", stage |-> "running", graph |-> g, prog |-> prog,
   seed |-> seed,
   entry |-> [b \in FlowCatalog[g].blocks |-> ConstantEnvironment(Bottom)],
   exit |-> [b \in FlowCatalog[g].blocks |-> ConstantEnvironment(Bottom)],
   worklist |-> {0}, visited |-> {}, steps |-> 0]

InitFlow ==
  /\ NoPass
  /\ \E g \in FlowGraphs, seed \in {Top, Bottom} :
       \E prog \in [FlowCatalog[g].blocks -> 2..Len(FlowPrograms)] :
         lab = FlowLab(g, [prog EXCEPT ![0] = 1], ConstantEnvironment(seed))

(* The iterator evaluates one block of the worklist; its successors are   *)
(* due when it is evaluated for the first time or its environments change. *)
evaluate_block(f, b, new_entry, new_exit) ==
  [f EXCEPT !.entry[b] = new_entry,
            !.exit[b] = new_exit,
            !.worklist = enqueue_successors(@, f.graph, b,
                           \/ b \notin f.visited
                           \/ new_entry # f.entry[b]
                           \/ new_exit # f.exit[b]),
            !.visited = @ \cup {b},
            !.steps = @ + 1]

FlowStep ==
  /\ lab.unit = "flow"
  /\ lab.stage = "running"
  /\ lab.steps < IterationCap
  /\ \E b \in lab.worklist :
       \E new_entry \in {entry_state(lab.graph, b, lab.seed, lab.entry,
                                     lab.exit, lab.prog)} :
         lab' = evaluate_block(lab, b, new_entry,
                               analyze_node(new_entry, FlowPrograms[lab.prog[b]]))
  /\ UNCHANGED passVars

(* run() returns when the worklist is empty. *)
FlowFinish ==
  /\ lab.unit = "flow"
  /\ lab.stage = "running"
  /\ lab.worklist = {}
  /\ lab' = [lab EXCEPT !.stage = "fixpoint"]
  /\ UNCHANGED passVars

NextFlow ==
  \/ FlowStep
  \/ FlowFinish

SpecFlow == InitFlow /\ [][NextFlow]_vars

(* run() is not interrupted: the iterator goes on while it can. *)
FairSpecFlow == SpecFlow /\ WF_vars(NextFlow)

(* The join of the constant domain on its own: two values are drawn and    *)
(* joined.                                                                 *)
JoinLab(a, b) ==
  [unit |-> "join", stage |-> "drawn", a |-> a, b |-> b,
   ab |-> Bottom, ba |-> Bottom, aa |-> Bottom]

InitJoin ==
  /\ NoPass
  /\ \E a \in ConstantDomain, b \in ConstantDomain : lab = JoinLab(a, b)

JoinValues ==
  /\ lab.unit = "join"
  /\ lab.stage = "drawn"
  /\ lab' = [lab EXCEPT !.stage = "joined",
                        !.ab = join(lab.a, lab.b),
                        !.ba = join(lab.b, lab.a),
                        !.aa = join(lab.a, lab.a)]
  /\ UNCHANGED passVars

NextJoin == JoinValues

SpecJoin == InitJoin /\ [][NextJoin]_vars

(***************************************************************************)
(* get_legacy_baseline_profile of ArtProfileWriterPass::run_pass           *)
(* (src/opt/art-profile-writer/ArtProfileWriterPass.cpp:367-430): the      *)
(* interactions in the configured order, the entries of method_stats of    *)
(* one interaction in the order the map yields them.                       *)
(***************************************************************************)
InteractionIds == {"ColdStart", "Other"}

(* m_perf_config.interactions: one or two interactions, in either order. *)
InteractionOrders ==
  {<<a>> : a \in InteractionIds}
    \cup {ab \in InteractionIds \X InteractionIds : ab[1] # ab[2]}

(* The method refs of the profiles; ref r, when defined, is method r. *)
ProfiledRefs == {1, 2}

Stat(appear_percent, call_count) ==
  [appear_percent |-> appear_percent, call_count |-> call_count]

NoStat == Stat(Null, Null)

(* What method_stats holds for one ref: nothing, or one of three stats. *)
StatChoices == {NoStat, Stat(50, 1), Stat(100, 1), Stat(100, 0)}

PerfConfigs ==
  {[appear100_threshold |-> 100, call_count_threshold |-> 1,
    coldstart_appear100_threshold |-> 50,
    coldstart_appear100_nonhot_threshold |-> 50],
   [appear100_threshold |-> 50, call_count_threshold |-> 1,
    coldstart_appear100_threshold |-> 100,
    coldstart_appear100_nonhot_threshold |-> 50]}

MethodFlags(hot, startup, post_startup) ==
  [hot |-> hot, startup |-> startup, post_startup |-> post_startup]

(* The entry operator[] of res.methods makes. *)
NoFlags == MethodFlags(FALSE, FALSE, FALSE)

(* The test that lets a stat into the profile (380-383). *)
passes_thresholds(perf, startup, stat) ==
  /\ stat.appear_percent >=
       (IF startup THEN perf.coldstart_appear100_nonhot_threshold
        ELSE perf.appear100_threshold)
  /\ stat.call_count >= perf.call_count_threshold

(* mf.hot (385-387). *)
legacy_hot(perf, startup, stat) ==
  IF startup THEN stat.appear_percent > perf.coldstart_appear100_threshold
  ELSE TRUE

(* mf.post_startup of a ColdStart entry (396). *)
startup_post_startup(mf, hot) == hot

(* The flags after the body of the inner loop for a stat that passed. *)
legacy_flags(mf, startup, hot) ==
  IF startup
    THEN MethodFlags(hot, TRUE, startup_post_startup(mf, hot))
    ELSE MethodFlags(hot, mf.startup, TRUE)

(* The body of the loop over method_stats for one entry (373-401). *)
legacy_visit(perf, res, startup, ref, stat) ==
  IF ~passes_thresholds(perf, startup, stat) THEN res
  ELSE [m \in DOMAIN res \cup {ref} |->
          IF m = ref
            THEN legacy_flags(IF ref \in DOMAIN res THEN res[ref] ELSE NoFlags,
                              startup, legacy_hot(perf, startup, stat))
            ELSE res[m]]

(* The classes of the profile (410-427); every dex file is looked at. *)
legacy_classes(res) ==
  {ClassOf(m) : m \in {x \in DOMAIN res :
                         res[x].hot \/ (res[x].startup /\ ~res[x].post_startup)}}

LegacyLab(perf, interactions, method_stats, undefined) ==
  [unit |-> "legacy", perf |-> perf, interactions |-> interactions,
   stats |-> method_stats, undefined |-> undefined, idx |-> 0, todo |-> {},
   res |-> <<>>, method_refs_without_def |-> {}, classes |-> {},
   stage |-> "methods"]

InitLegacy ==
  /\ NoPass
  /\ \E perf \in PerfConfigs, order \in InteractionOrders,
        method_stats \in [InteractionIds -> [ProfiledRefs -> StatChoices]],
        undefined \in {{}, {2}} :
       lab = LegacyLab(perf, order, method_stats, undefined)

(* for (auto& interaction_id : m_perf_config.interactions) *)
LegacyInteraction ==
  /\ lab.unit = "legacy"
  /\ lab.stage = "methods"
  /\ lab.todo = {}
  /\ lab.idx < Len(lab.interactions)
  /\ lab' = [lab EXCEPT
               !.idx = @ + 1,
               !.todo = {r \in ProfiledRefs :
                           lab.stats[lab.interactions[lab.idx + 1]][r] # NoStat}]
  /\ UNCHANGED passVars

(* One entry of method_stats of the interaction. *)
LegacyVisit ==
  /\ lab.unit = "legacy"
  /\ lab.stage = "methods"
  /\ \E ref \in lab.todo :
       lab' = [lab EXCEPT
                 !.todo = @ \ {ref},
                 !.method_refs_without_def =
                    IF ref \in lab.undefined THEN @ \cup {ref} ELSE @,
                 !.res = IF ref \in lab.undefined THEN @
                         ELSE legacy_visit(lab.perf, @,
                                lab.interactions[lab.idx] = "ColdStart", ref,
                                lab.stats[lab.interactions[lab.idx]][ref])]
  /\ UNCHANGED passVars

(* The loop over the dex files that collects res.classes, and the return. *)
LegacyClasses ==
  /\ lab.unit = "legacy"
  /\ lab.stage = "methods"
  /\ lab.todo = {}
  /\ lab.idx = Len(lab.interactions)
  /\ lab' = [lab EXCEPT !.stage = "returned", !.classes = legacy_classes(lab.res)]
  /\ UNCHANGED passVars

NextLegacy ==
  \/ LegacyInteraction
  \/ LegacyVisit
  \/ LegacyClasses

SpecLegacy == InitLegacy /\ [][NextLegacy]_vars

(***************************************************************************)
(* get_callee of never_inline (ArtProfileWriterPass.cpp:117-129) on its    *)
(* own, one statement group of its do-while loop at a time, over scopes    *)
(* whose simple methods may invoke themselves or each other.               *)
(***************************************************************************)
CalleeMethods ==
  {Forwarder(c, "absent") : c \in Methods}
    \cup {Getter("absent")}
    \cup {Leaf(k, 10, {}, "absent") : k \in {"plain", "nocode", "external", "virtual"}}

CalleeScopes == [Methods -> CalleeMethods]

CalleeLab(ms, invoke_insn) ==
  [unit |-> "callee", ms |-> ms, invoke_insn |-> invoke_insn, callee |-> Null,
   stage |-> "resolve", result |-> Null]

InitCallee ==
  /\ NoPass
  /\ \E ms \in CalleeScopes, c \in Methods \cup {Null} :
       lab = CalleeLab(ms, Insn("invoke", c))

(* The loop of get_callee, would it go on with the invoke is_simple found. *)
loops_on(ms, callee) ==
  is_simple(ms[callee]) /\ simple_invoke(ms[callee]) # NoInsn

(* The body of the do-while loop: resolve the invoke, return nullptr for   *)
(* a callee not to consider, else go on with the callee.                   *)
CalleeResolve ==
  /\ lab.unit = "callee"
  /\ lab.stage = "resolve"
  /\ \E callee \in {resolve_invoke_method(lab.invoke_insn)} :
       lab' = IF ~consider_callee(lab.ms, callee)
                THEN [lab EXCEPT !.callee = callee, !.stage = "returned",
                                 !.result = Null]
              ELSE [lab EXCEPT !.callee = callee, !.invoke_insn = NoInsn,
                               !.stage = "test"]
  /\ UNCHANGED passVars

(* while (is_simple(callee, &invoke_insn) && invoke_insn != nullptr), and  *)
(* the return of the callee after the loop.                                *)
CalleeTest ==
  /\ lab.unit = "callee"
  /\ lab.stage = "test"
  /\ lab' = IF loops_on(lab.ms, lab.callee)
              THEN [lab EXCEPT !.invoke_insn = simple_invoke(lab.ms[lab.callee]),
                               !.stage = "resolve"]
            ELSE [lab EXCEPT !.stage = "returned", !.result = lab.callee]
  /\ UNCHANGED passVars

NextCallee ==
  \/ CalleeResolve
  \/ CalleeTest

SpecCallee == InitCallee /\ [][NextCallee]_vars

(* get_callee runs on: nothing else takes its thread's steps. *)
FairSpecCallee == SpecCallee /\ WF_vars(NextCallee)

(***************************************************************************)
(* is_simple (ArtProfileWriterPass.cpp:47-86) on its own, with the         *)
(* iterator `it` over the instructions of the entry block (position        *)
(* Len + 1 is ii.end()) and its always_assert(it != ii.end()) checks.      *)
(***************************************************************************)
MaxInsns == 4

SimpleOps ==
  {"load_param", "const", "iget", "sget", "invoke", "move_result", "other",
   "return"}

(* The instructions of one block: a return can only be its last one. *)
BlockInsns ==
  {s \in UNION {[1..n -> SimpleOps] : n \in 0..MaxInsns} :
     \A i \in 1..(Len(s) - 1) : s[i] # "return"}

OpsToInsns(ops) ==
  [i \in 1..Len(ops) |-> Insn(ops[i], IF ops[i] = "invoke" THEN 1 ELSE Null)]

SimpleLab(nblocks, ops) ==
  [unit |-> "simple", method |-> [nblocks |-> nblocks, insns |-> OpsToInsns(ops)],
   stage |-> "called", it |-> 0, invoke_insn |-> NoInsn, result |-> FALSE]

InitSimple ==
  /\ NoPass
  /\ \/ \E ops \in BlockInsns : lab = SimpleLab(1, ops)
     \/ lab = SimpleLab(2, <<"other">>)

(* always_assert(it != ii.end()): the stage to go on with, or the failure. *)
assert_not_end(insns, it, stage) ==
  IF it = Len(insns) + 1 THEN "assert_failed" ELSE stage

(* The tests before the iterator is made (51-58), then it = ii.begin(). *)
SimpleBegin ==
  /\ lab.unit = "simple"
  /\ lab.stage = "called"
  /\ lab' = IF lab.method.nblocks # 1 THEN [lab EXCEPT !.stage = "returned"]
            ELSE IF lab.method.insns = <<>> THEN [lab EXCEPT !.stage = "returned"]
            ELSE IF lab.method.insns[Len(lab.method.insns)].op # "return"
              THEN [lab EXCEPT !.stage = "returned"]
            ELSE [lab EXCEPT !.it = 1,
                             !.stage = assert_not_end(lab.method.insns, 1,
                                                      "load_params")]
  /\ UNCHANGED passVars

(* at_load_param, were no instruction taken for a load-param. *)
at_load_param_never(insns, it) == FALSE

(* opcode::is_a_load_param(it->insn->opcode()) *)
at_load_param(insns, it) == insns[it].op = "load_param"

(* One round of the while loop over the load-param instructions. *)
SimpleLoadParam ==
  /\ lab.unit = "simple"
  /\ lab.stage = "load_params"
  /\ at_load_param(lab.method.insns, lab.it)
  /\ lab' = [lab EXCEPT !.it = @ + 1,
                        !.stage = assert_not_end(lab.method.insns, lab.it + 1,
                                                 "load_params")]
  /\ UNCHANGED passVars

(* The if / else if over const, iget or sget, and invoke (65-77). *)
SimpleSingle ==
  /\ lab.unit = "simple"
  /\ lab.stage = "load_params"
  /\ ~at_load_param(lab.method.insns, lab.it)
  /\ lab' = IF lab.method.insns[lab.it].op \in {"const", "iget", "sget", "invoke"}
              THEN [lab EXCEPT
                      !.invoke_insn = simple_invoke_at(lab.method.insns, lab.it),
                      !.it = @ + 1,
                      !.stage = assert_not_end(lab.method.insns, lab.it + 1,
                                               "move_result")]
            ELSE [lab EXCEPT !.stage = "move_result"]
  /\ UNCHANGED passVars

(* The if over move-result, the last assert and the return (78-85). *)
SimpleMoveResult ==
  /\ lab.unit = "simple"
  /\ lab.stage = "move_result"
  /\ \E it \in {IF lab.method.insns[lab.it].op = "move_result"
                  THEN lab.it + 1 ELSE lab.it} :
       lab' = [lab EXCEPT
                 !.it = it,
                 !.stage = assert_not_end(lab.method.insns, it, "returned"),
                 !.result = it = Len(lab.method.insns)]
  /\ UNCHANGED passVars

NextSimple ==
  \/ SimpleBegin
  \/ SimpleLoadParam
  \/ SimpleSingle
  \/ SimpleMoveResult

SpecSimple == InitSimple /\ [][NextSimple]_vars

(***************************************************************************)
(* Properties.  What they read of a run.                                   *)
(***************************************************************************)
AppliedMethods == {applied[i].method : i \in 1..Len(applied)}

GatheredMethods == {method_transforms[i].method : i \in 1..Len(method_transforms)}

(* The code of method m before run_pass. *)
OriginalCode(m) == CodeOfShape(live[m].shape)

(* The number of branch transforms applied in dex d. *)
AppliedInDex(d) ==
  SumSeq([i \in 1..Len(applied) |->
            IF applied[i].dex = d THEN Len(applied[i].log) ELSE 0])

Dexes == 1..Len(DexFiles(stores))

(* The pass that runs has reserved references in eval_pass. *)
Reserves == active = "ccb" \/ art.never_inline_attach_annotations

(* run_pass is in a parallel walk or is editing. *)
RunPhases ==
  {"gather", "apply", "never_compile", "count", "never_inline", "attach"}

(* C1: edit atomicity.  The live code of a method changes only by the      *)
(* set_code that ends apply_transform: every method apply_transform was    *)
(* not called for (not gathered, finder unsupported, case count out of     *)
(* range, over the per-dex budget) has exactly the code it had before      *)
(* run_pass, during gather and after it; apply_transform is called at most *)
(* once per method and leaves the edited simplified copy.                  *)
C1_EditAtomicity ==
  active = "ccb" =>
    /\ \A m \in Methods \ AppliedMethods : live[m] = OriginalCode(m)
    /\ \A i, j \in 1..Len(applied) :
         applied[i].method = applied[j].method => i = j
    /\ \A m \in AppliedMethods : live[m].simplified /\ live[m] # OriginalCode(m)

(* A finished run in which one method was edited, one gathered method was  *)
(* left out by the budget and one method had a root that was not recorded. *)
C1_Witness ==
  /\ pc = "done"
  /\ applied # <<>>
  /\ GatheredMethods \ AppliedMethods # {}
  /\ \E m \in DOMAIN gatherLog : gatherLog[m].runs \ gatherLog[m].roots # {}

(* C2: per-dex budget.  In every dex file of every store the number of     *)
(* branch transforms applied never exceeds transforms_per_dex.             *)
C2_PerDexBudget ==
  active = "ccb" => \A d \in Dexes : AppliedInDex(d) <= config.transforms_per_dex

(* A run that completed with the budget of a dex used up and a candidate   *)
(* of the run skipped.                                                     *)
C2_Witness ==
  /\ pc = "done"
  /\ \E d \in Dexes : AppliedInDex(d) = config.transforms_per_dex
  /\ \E i \in 1..Len(method_transforms) :
       /\ method_transforms[i].method \notin AppliedMethods
       /\ Len(method_transforms[i].transforms) <= config.transforms_per_dex

(* What the run must come to, from its inputs alone: the methods gather    *)
(* records, and per dex the methods edited with the index their first      *)
(* getter gets.                                                            *)
GatherOf(m) == gather_possible_transformations(PassState, OriginalCode(m))

Candidates ==
  {m \in Methods : /\ should_consider_method(PassState, OriginalCode(m))
                   /\ GatherOf(m).found.transforms # <<>>}

CandidatesOfDex(d) ==
  {m \in Candidates : ClassOf(m) \in Range(DexFiles(stores)[d])}

RECURSIVE ExpectedPlan(_, _, _)
ExpectedPlan(ms, count, max) ==
  IF ms = <<>> THEN <<>>
  ELSE IF count + Len(GatherOf(Head(ms)).found.transforms) > max THEN <<>>
  ELSE <<[method |-> Head(ms), count |-> count]>>
       \o ExpectedPlan(Tail(ms),
                       count + Len(GatherOf(Head(ms)).found.transforms), max)

ExpectedOfDex(d) ==
  ExpectedPlan(Reverse(SortedSeq(CandidatesOfDex(d))), 0,
               config.transforms_per_dex)

PlanOf(entries) ==
  [i \in 1..Len(entries) |->
     [method |-> entries[i].method, count |-> entries[i].count]]

AppliedOfDex(d) == PlanOf(SelectSeq(applied, LAMBDA e : e.dex = d))

ExpectedCode(m, count) ==
  apply_transform([method |-> m, code_copy |-> GatherOf(m).code_copy,
                   transforms |-> GatherOf(m).found.transforms], count).code

(* C3: order-independence.  Whatever the order in which the workers        *)
(* appended to method_transforms, the finished run has transformed the     *)
(* same methods, given the same index to every getter and left the same    *)
(* code in every method: all three are the ones the inputs determine.      *)
C3_OrderIndependence ==
  (active = "ccb" /\ pc = "done" /\ lookup = "found") =>
    /\ GatheredMethods = Candidates
    /\ \A d \in Dexes : AppliedOfDex(d) = ExpectedOfDex(d)
    /\ \A i \in 1..Len(applied) :
         /\ live[applied[i].method] = ExpectedCode(applied[i].method, applied[i].count)
         /\ \A j \in 1..Len(applied[i].log) :
              applied[i].log[j].index = applied[i].count + j - 1

(* A finished run of several edits whose method_transforms is not in the   *)
(* order of the methods.                                                   *)
C3_Witness ==
  /\ pc = "done"
  /\ Len(applied) >= 2
  /\ \E i, j \in 1..Len(method_transforms) :
       i < j /\ method_transforms[i].method > method_transforms[j].method

(* C4: shared state of the parallel walks.  A worker writes to what the    *)
(* workers share only through an atomic counter, an insert-only concurrent *)
(* container or under the mutex, with one exception: never_compile writes  *)
(* the hot flag of the profile entry of the method the worker is visiting  *)
(* into the ordinary map baseline_profile->methods without a lock.         *)
C4_SharedWritesGuarded ==
  \A a \in access :
    \/ a.kind \in {"atomic", "insert_only"}
    \/ a.locked
    \/ a.kind = "element" /\ a.key = a.visiting

(* C4 as stated: no write to an ordinary shared map or vector without a    *)
(* lock.                                                                   *)
C4_NoUnlockedOrdinaryWrite ==
  \A a \in access : a.kind \in {"atomic", "insert_only"} \/ a.locked

(* A worker of never_compile has just cleared a hot flag. *)
C4_Witness ==
  /\ pc = "never_compile"
  /\ \E a \in access : a.kind = "element" /\ ~a.locked

(* C5: reserve/release protocol.  The reservation eval_pass makes is       *)
(* outstanding until run_pass; once run_pass is past its first statements, *)
(* on every path, the reservation has been released exactly once, nothing  *)
(* is reserved and the handle is empty; a run_pass entered with an empty   *)
(* handle stops at the assert and releases nothing.                        *)
C5_ReserveRelease ==
  /\ Len(mgr.released) <= 1
  /\ pc = "idle" => (handle = Null /\ mgr.reserved = {} /\ mgr.released = <<>>)
  /\ pc = "evaluated" =>
       /\ mgr.released = <<>>
       /\ IF Reserves
            THEN handle # Null /\ {r.id : r \in mgr.reserved} = {handle}
          ELSE handle = Null /\ mgr.reserved = {}
  /\ pc \in RunPhases \cup {"done"} =>
       /\ handle = Null
       /\ mgr.reserved = {}
       /\ Len(mgr.released) = IF Reserves THEN 1 ELSE 0
  /\ pc = "aborted" => (handle = Null /\ mgr.reserved = {})

(* run_pass returned early, having released, and the next run_pass        *)
(* stopped at the assert.                                                  *)
C5_Witness ==
  /\ pc = "aborted"
  /\ lookup \in {"empty", "notfound"}
  /\ Len(mgr.released) = 1

(* C6: reservation ordering.  The reservation is made by eval_pass, before *)
(* run_pass and so before the parallel phase, and run_pass releases it as  *)
(* its first step: during the parallel walks and the edits that create     *)
(* method or type references no reservation of the pass is held.           *)
C6_ReleasedBeforeParallelPhase ==
  /\ (Reserves /\ pc = "evaluated") => (handle # Null /\ mgr.released = <<>>)
  /\ (Reserves /\ pc \in RunPhases) =>
       (handle = Null /\ mgr.reserved = {} /\ mgr.released # <<>>)

(* C6 as stated: the reservation is still held during the parallel phase   *)
(* and the edits.                                                          *)
C6_HeldUntilAfterEdits == (Reserves /\ pc \in RunPhases) => handle # Null

(* A getter method was created while the pass held no reservation. *)
C6_Witness == pc = "apply" /\ getters # <<>> /\ handle = Null

(* C7: the reserved count 2 + transforms_per_dex bounds the distinct new   *)
(* method references of every dex: one getter per applied branch           *)
(* transform, RuntimeException.<init> and the lookup method.               *)
C7_ReservedMrefsBound ==
  active = "ccb" =>
    \A d \in Dexes :
      /\ Cardinality(dexMrefs[d]) <= reserved_mrefs(config)
      /\ Cardinality({r \in dexMrefs[d] : r.kind = "getter"}) = AppliedInDex(d)
      /\ {r \in dexMrefs[d] : r.kind # "getter"}
           \subseteq {MethodRef("RuntimeException.<init>", 0, 0),
                      MethodRef("lookup_method", 0, 0)}

(* A dex whose edits introduced as many method references as reserved. *)
C7_Witness ==
  \E d \in Dexes : Cardinality(dexMrefs[d]) = 2 + config.transforms_per_dex

(* What gather analysed of method m, and the finder of its block b. *)
CopyOf(m) == gather_copy(OriginalCode(m))

FinderOf(m, b) == SwitchEquivFinder(CopyOf(m), b)

Unsupported(finder) ==
  \/ ~finder.success
  \/ ~finder.uniform
  \/ finder.extra_loads # {}
  \/ finder.default_case = Null

(* The blocks of the chain a finder was run on, from its root on. *)
ChainCases(m, b) == Cardinality(FinderOf(m, b).visited_blocks)

(* C8: a pattern-match failure is not an error.  A root whose finder is    *)
(* unsuccessful, has non-class keys, has extra loads or has no default     *)
(* case is never recorded as a BranchTransform, and the loop goes on:      *)
(* every block of the method is still examined as a possible root, unless  *)
(* a supported finder visited it.                                          *)
C8_UnsupportedIsSkipped ==
  \A m \in DOMAIN gatherLog :
    gatherLog[m].considered =>
      /\ \A b \in gatherLog[m].runs :
           Unsupported(FinderOf(m, b)) => b \notin gatherLog[m].roots
      /\ Range(order_blocks(CopyOf(m))) =
           gatherLog[m].examined
             \cup UNION {FinderOf(m, b).visited_blocks :
                           b \in {r \in gatherLog[m].runs :
                                    ~Unsupported(FinderOf(m, r))}}

(* A method in which a root was rejected for its finder and a later root   *)
(* was recorded.                                                           *)
C8_Witness ==
  \E m \in DOMAIN gatherLog :
    /\ \E b \in gatherLog[m].runs : Unsupported(FinderOf(m, b))
    /\ gatherLog[m].roots # {}

CaseEdges(cfg, b) ==
  [i \in 1..Len(SelectSeq(cfg.succs[b], LAMBDA e : e.type = "BRANCH")) |->
     <<SelectSeq(cfg.succs[b], LAMBDA e : e.type = "BRANCH")[i].key,
       SelectSeq(cfg.succs[b], LAMBDA e : e.type = "BRANCH")[i].tgt>>]

OrdinalsInOrder(e, types) ==
  /\ Len(e.new_edges) = Len(types)
  /\ Len(e.items) = Len(types)
  /\ \A k \in 1..Len(types) :
       /\ e.new_edges[k] = <<k, e.key_to_case[types[k]]>>
       /\ e.items[k] = <<types[k], k>>
  /\ \A k \in 1..Len(e.new_edges) : e.new_edges[k][1] # STRING_TREE_NO_ENTRY
  /\ \A k, l \in 1..Len(e.new_edges) :
       e.new_edges[k][1] = e.new_edges[l][1] => k = l

(* C10: switch keys.  For every applied branch transform the keys given to *)
(* create_branch are pairwise distinct: the N non-default types get the    *)
(* ordinals 1..N in dextypes_comparator order, 0 is never a key, the edge  *)
(* of ordinal k goes to the block key_to_case has for the k-th type, and   *)
(* these are the case edges of the root block in the code set.             *)
C10_SwitchKeys ==
  \A i \in 1..Len(applied) :
    \A j \in 1..Len(applied[i].log) :
      /\ OrdinalsInOrder(applied[i].log[j],
                         SortedSeq(DOMAIN applied[i].log[j].key_to_case))
      /\ CaseEdges(live[applied[i].method], applied[i].log[j].block)
           = applied[i].log[j].new_edges

(* A transform of three cases was applied. *)
C10_Witness ==
  \E i \in 1..Len(applied) :
    \E j \in 1..Len(applied[i].log) : Len(applied[i].log[j].new_edges) = 3

(***************************************************************************)
(* Properties of one method on its own (SpecCfg).                          *)
(***************************************************************************)
EdgesOfType(es, ty) == SelectSeq(es, LAMBDA e : e.type = ty)

KeysAndTargets(es) == [i \in 1..Len(es) |-> <<es[i].key, es[i].tgt>>]

(* Terminator and outgoing edges of the root block after the edits of the  *)
(* transform logged in e.                                                  *)
RootAgrees(e) ==
  /\ e.root_last = "switch"
  /\ KeysAndTargets(EdgesOfType(e.root_succs, "BRANCH")) = e.new_edges
  /\ \A k, l \in 1..Len(e.new_edges) :
       e.new_edges[k][1] = e.new_edges[l][1] => k = l
  /\ \A i \in 1..Len(e.root_succs) : e.root_succs[i].type \in {"BRANCH", "GOTO"}
  /\ Len(EdgesOfType(e.root_succs, "GOTO")) = 1
  /\ e.default_case # Null
  /\ EdgesOfType(e.root_succs, "GOTO")[1].tgt = e.default_case

C12_VisitedNotReprocessed ==
  lab.unit = "cfg" =>
    \A i, j \in 1..Len(lab.found.transforms) :
      i < j =>
        /\ lab.found.transforms[i].block # lab.found.transforms[j].block
        /\ lab.found.transforms[j].block
             \notin lab.found.transforms[i].switch_equiv.visited_blocks

(* C12 as stated: no root of a recorded transform is in the visited set of *)
(* a different recorded transform.                                         *)
C12_RootsOutsideOtherChains ==
  lab.unit = "cfg" =>
    \A i, j \in 1..Len(lab.found.transforms) :
      i # j =>
        /\ lab.found.transforms[i].block # lab.found.transforms[j].block
        /\ lab.found.transforms[i].block
             \notin lab.found.transforms[j].switch_equiv.visited_blocks

(* Two transforms were recorded for one method, and a chain of several     *)
(* blocks was recorded once.                                               *)
C12_Witness ==
  /\ lab.unit = "cfg"
  /\ Len(lab.found.transforms) = 2
  /\ Cardinality(lab.found.transforms[1].switch_equiv.visited_blocks) >= 2

(* The statement groups of gather and apply_transform on a method with n   *)
(* recorded transforms, in order.                                          *)
StepsOf(n) ==
  <<"gather">> \o [i \in 1..n |-> "transform"]
    \o <<"remove_unreachable_blocks", "set_code">>

IsPrefix(s, u) == Len(s) <= Len(u) /\ s = SubSeq(u, 1, Len(s))

(* The blocks the transform logged in e refers to. *)
ReferencedBlocks(e) ==
  {e.block, e.default_case} \cup {e.new_edges[k][2] : k \in 1..Len(e.new_edges)}

(* C13: for a method given to apply_transform, first all its transforms    *)
(* are applied to the copy, then remove_unreachable_blocks is called once, *)
(* then set_code swaps the copy in once; no block is removed before the    *)
(* last transform is applied, so the root, case targets and default of     *)
(* every transform exist when it is applied.                               *)
C13_ApplyThenCleanupThenSwap ==
  (lab.unit = "cfg" /\ lab.mode = "pass") =>
    /\ IsPrefix(lab.steps, StepsOf(Len(lab.found.transforms)))
    /\ \A j \in 1..Len(lab.st.log) :
         /\ lab.st.log[j].prunes_before = 0
         /\ ReferencedBlocks(lab.st.log[j]) \subseteq lab.st.log[j].blocks_before
    /\ lab.stage \in {"finished", "swapped", "cleaned"} =>
         /\ lab.st.prunes = 1
         /\ Len(lab.st.log) = Len(lab.found.transforms)
    /\ lab.stage \in {"swapped", "cleaned"} => lab.code = lab.st.cfg
    /\ lab.stage \in {"loaded", "considered", "skipped", "nothing",
                       "gathered", "finished"} =>
         lab.code = InitCode(lab.shape)

(* A method with two transforms got its new code. *)
C13_Witness ==
  /\ lab.unit = "cfg"
  /\ lab.stage = "swapped"
  /\ Len(lab.st.log) = 2

(* The blocks of cfg that a path from the entry block reaches: the entry   *)
(* block and, n times over, the targets of the edges of what is reached.   *)
RECURSIVE ReachedWithin(_, _, _)
ReachedWithin(cfg, n, R) ==
  IF n = 0 THEN R
  ELSE ReachedWithin(cfg, n - 1,
         R \cup {b \in cfg.blocks :
                   \E a \in R : \E i \in 1..Len(cfg.succs[a]) :
                     cfg.succs[a][i].tgt = b})

ReachableBlocks(cfg) == ReachedWithin(cfg, Cardinality(cfg.blocks), {0})

(* C14: remove_unreachable_blocks deletes exactly the blocks that are not  *)
(* reachable from the entry block and leaves the others, their last        *)
(* instructions and edges as they were; a second call right after the      *)
(* first changes nothing.                                                  *)
C14_CleanupExactAndIdempotent ==
  (lab.unit = "cfg"
     /\ lab.stage \in {"finished", "swapped", "pruned", "cleaned"}) =>
    /\ lab.st.cfg.blocks = ReachableBlocks(lab.unpruned)
    /\ \A b \in lab.st.cfg.blocks :
         /\ lab.st.cfg.succs[b] = lab.unpruned.succs[b]
         /\ lab.st.cfg.last[b] = lab.unpruned.last[b]
         /\ lab.st.cfg.cc[b] = lab.unpruned.cc[b]
    /\ lab.stage = "cleaned" => lab.again = lab.st.cfg

(* The cleanup removed blocks after two free edits and was called again. *)
C14_Witness ==
  /\ lab.unit = "cfg"
  /\ lab.stage = "cleaned"
  /\ lab.edits = 2
  /\ lab.st.cfg.blocks # lab.unpruned.blocks

(* Hand-built code s is the canonical chain: n equality branches on one    *)
(* register against n different classes, then the default block.           *)
Canonical(h, n) ==
  /\ h.pre = "none"
  /\ h.closed
  /\ Len(h.decisions) = n
  /\ \A i \in 1..n :
       /\ h.decisions[i].reg = h.decisions[1].reg
       /\ h.decisions[i].kind = "class"
       /\ ~h.decisions[i].extra
       /\ ~h.decisions[i].catch
       /\ \A j \in 1..n : h.decisions[i].val = h.decisions[j].val => i = j

HandOf(s) == HandCatalog[s - Len(Catalog)]

(* C17: on the canonical chain of 3 equality branches (keys TypeA, TypeB,  *)
(* TypeC, default block D) the finder run on the root reports success,     *)
(* exactly 3 keyed entries, each key with the equal target of its branch,  *)
(* and D as the default.                                                   *)
C17_CanonicalChain ==
  (lab.unit = "cfg" /\ Canonical(HandOf(lab.shape), 3) /\ 1 \in lab.found.runs) =>
    /\ SwitchEquivFinder(lab.copy, 1).success
    /\ DOMAIN SwitchEquivFinder(lab.copy, 1).key_to_case
         = {HandOf(lab.shape).decisions[i].val : i \in 1..3}
    /\ Cardinality(DOMAIN SwitchEquivFinder(lab.copy, 1).key_to_case) = 3
    /\ \A i \in 1..3 :
         SwitchEquivFinder(lab.copy, 1).key_to_case[HandOf(lab.shape).decisions[i].val]
           = EdgesOfType(InitCode(lab.shape).succs[i], "BRANCH")[1].tgt
    /\ SwitchEquivFinder(lab.copy, 1).default_case
         = EdgesOfType(InitCode(lab.shape).succs[3], "GOTO")[1].tgt
    /\ InitCode(lab.shape).last[SwitchEquivFinder(lab.copy, 1).default_case] # "if"

(* The finder was run on the root of the canonical chain of 3. *)
C17_Witness ==
  /\ lab.unit = "cfg"
  /\ Canonical(HandOf(lab.shape), 3)
  /\ 1 \in lab.found.runs

(* The chain of hand-built code has a branch on another register than its  *)
(* root.                                                                   *)
OtherRegister(h) ==
  \E i \in 2..Len(h.decisions) : h.decisions[i].reg # h.decisions[1].reg

(* A decision block of the chain after the root is a catch handler. *)
CatchInChain(h) ==
  /\ \A i \in 1..Len(h.decisions) : h.decisions[i].reg = h.decisions[1].reg
  /\ \E i \in 2..Len(h.decisions) : h.decisions[i].catch

(* C18: a chain with a branch on a different register than the root's, and *)
(* a chain with a visited decision block that is a catch handler, make the *)
(* finder report no success; the caller records no transform for a root    *)
(* whose finder reported no success.                                       *)
C18_RejectedChains ==
  lab.unit = "cfg" =>
    /\ (1 \in lab.found.runs
          /\ (OtherRegister(HandOf(lab.shape)) \/ CatchInChain(HandOf(lab.shape))))
         => ~SwitchEquivFinder(lab.copy, 1).success
    /\ \A r \in lab.found.runs :
         ~SwitchEquivFinder(lab.copy, r).success =>
           \A j \in 1..Len(lab.found.transforms) :
             lab.found.transforms[j].block # r
    /\ \A j \in 1..Len(lab.found.transforms) :
         lab.found.transforms[j].switch_equiv.success

(* The finder was run on a chain with a catch handler in it, and it found  *)
(* keys and a default.                                                     *)
C18_Witness ==
  /\ lab.unit = "cfg"
  /\ CatchInChain(HandOf(lab.shape))
  /\ 1 \in lab.found.runs
  /\ SwitchEquivFinder(lab.copy, 1).default_case # Null

(* The registers the code of shape s reads in its decision blocks. *)
ShapeRegisters(s) ==
  {ShapeTable[s].reg[b] : b \in ShapeTable[s].blocks} \ {Null}

RECURSIVE Flatten(_)
Flatten(ss) == IF ss = <<>> THEN <<>> ELSE Head(ss) \o Flatten(Tail(ss))

(* The registers apply_transform got from allocate_temp, in order. *)
TempsOfLog(log) == Flatten([j \in 1..Len(log) |-> log[j].temps])

StrictlyIncreasing(s) == \A a, b \in 1..Len(s) : a < b => s[a] < s[b]

(* C15: every register returned by allocate_temp on one cfg is greater     *)
(* than all returned before and is not a register the method already      *)
(* uses; the constant registers of a patched call site in ConstantLifting  *)
(* are pairwise different and none is an argument register of the          *)
(* original invoke.                                                        *)
C15_FreshRegisters ==
  /\ lab.unit = "cfg" =>
       /\ StrictlyIncreasing(TempsOfLog(lab.st.log))
       /\ Range(TempsOfLog(lab.st.log)) \cap ShapeRegisters(lab.shape) = {}
       /\ \A j \in 1..Len(lab.st.log) :
            \A k \in 1..Len(lab.st.log[j].temps) :
              lab.st.log[j].temps[k] >= lab.st.log[j].regs_before
  /\ lab.unit = "lift" =>
       /\ StrictlyIncreasing([k \in 1..Len(lab.returned) |-> lab.returned[k].reg])
       /\ \A k \in 1..Len(lab.returned) :
            lab.returned[k].reg \notin lab.returned[k].used
       /\ \A k \in 1..Len(lab.patched) :
            /\ Cardinality(Range(lab.patched[k].const_regs))
                 = Len(lab.patched[k].const_regs)
            /\ Range(lab.patched[k].const_regs) \cap Range(lab.patched[k].args) = {}
            /\ \E pos \in {find_insn(lab.caller.insns, lab.patched[k].insn)} :
                 lab.caller.insns[pos].srcs
                   = lab.patched[k].args \o lab.patched[k].const_regs

(* Two call sites with two arguments each were patched with three          *)
(* constant registers each.                                                *)
C15_Witness ==
  /\ lab.unit = "lift"
  /\ Len(lab.patched) = 2
  /\ Len(lab.patched[2].const_regs) = 3
  /\ Len(lab.patched[2].args) = 2

(* The instructions of insns that the method had before the lifting. *)
PreExisting(insns, original) ==
  SelectSeq(insns, LAMBDA x : x.id <= Len(original))

(* C16: after the load-param instructions of the lifted constants are      *)
(* inserted into the entry block, they come after every original           *)
(* param-loading instruction and before the first other instruction, in    *)
(* the order of the constant values, also when the method had no param     *)
(* loads; the instructions the method had keep their relative order.       *)
C16_ParamLoadsInOrder ==
  (lab.unit = "lift" /\ lab.stage \in {"params", "loads", "sites", "done"}) =>
    \E vals \in {SelectSeq(SubSeq(lab.const_vals, 1, lab.i - 1),
                           LAMBDA v : v.kind # "invalid")} :
      /\ SubSeq(lab.callee.insns, 1, lab.params)
           = SubSeq(lab.original, 1, lab.params)
      /\ \A j \in 1..Len(vals) :
           /\ lab.callee.insns[lab.params + j].id > Len(lab.original)
           /\ lab.callee.insns[lab.params + j].dest = vals[j].param_reg
           /\ lab.callee.insns[lab.params + j].op =
                (IF vals[j].kind = "int" THEN "load-param" ELSE "load-param-object")
      /\ \A k \in (lab.params + Len(vals) + 1)..Len(lab.callee.insns) :
           lab.callee.insns[k].op \notin {"load-param", "load-param-object"}
      /\ PreExisting(lab.callee.insns, lab.original)
           = SelectSeq(lab.original,
                       LAMBDA x : \E k \in 1..Len(lab.callee.insns) :
                                    lab.callee.insns[k].id = x.id)
      /\ lab.stage = "params" =>
           PreExisting(lab.callee.insns, lab.original) = lab.original

(* Three constants were lifted into a method that had no param loads. *)
C16_Witness ==
  /\ lab.unit = "lift"
  /\ lab.stage = "loads"
  /\ lab.params = 0
  /\ Len(get_constant_types(lab.const_vals)) = 3

(* The fixpoint equations at block b of the run in f. *)
AtFixpoint(f, b) ==
  /\ f.entry[b] = entry_state(f.graph, b, f.seed, f.entry, f.exit, f.prog)
  /\ f.exit[b] = analyze_node(f.entry[b], FlowPrograms[f.prog[b]])

(* C19: the iteration started from Bottom never lowers the value of a      *)
(* register at the entry or the exit of a block, leaves the iterator with  *)
(* work only while evaluations remain under the cap, and ends at a         *)
(* fixpoint, also on flow graphs with loops.                               *)
C19_MonotoneAndTerminates ==
  /\ [][lab.unit = "flow" =>
         \A b \in DOMAIN lab.entry :
           /\ leq_env(lab.entry[b], lab'.entry[b])
           /\ leq_env(lab.exit[b], lab'.exit[b])]_vars
  /\ [](lab.unit = "flow" =>
         /\ lab.steps <= IterationCap
         /\ lab.worklist # {} => lab.steps < IterationCap
         /\ lab.stage = "fixpoint" =>
              \A b \in DOMAIN lab.entry : AtFixpoint(lab, b))
  /\ <>(lab.unit = "flow" /\ lab.stage = "fixpoint")

(* The iterator finished on a graph with a loop after evaluating a block   *)
(* of the loop more than once, with a register at Top at the loop head.    *)
C19_Witness ==
  /\ lab.unit = "flow"
  /\ lab.stage = "fixpoint"
  /\ lab.graph = 5
  /\ lab.steps > Cardinality(DOMAIN lab.entry) + 1
  /\ lab.entry[1][0] = Top
  /\ lab.seed = ConstantEnvironment(Bottom)

(* C20: in the constant domain the join of two different constants is     *)
(* Top, the join of Bottom with X is X, the join is commutative and        *)
(* idempotent, and for A below B the join of A and B is B.                 *)
C20_JoinLaws ==
  (lab.unit = "join" /\ lab.stage = "joined") =>
    /\ (lab.a.tag = "Constant" /\ lab.b.tag = "Constant" /\ lab.a # lab.b)
         => lab.ab.tag = "Top"
    /\ lab.a.tag = "Bottom" => lab.ab = lab.b
    /\ lab.b.tag = "Bottom" => lab.ab = lab.a
    /\ lab.ab = lab.ba
    /\ lab.aa = lab.a
    /\ (lab.a.tag = "Bottom" \/ lab.b.tag = "Top" \/ lab.a = lab.b)
         => lab.ab = lab.b

(* Two different constants of one kind were joined. *)
C20_Witness ==
  /\ lab.unit = "join"
  /\ lab.stage = "joined"
  /\ lab.a.tag = "Constant"
  /\ lab.b.tag = "Constant"
  /\ lab.a.kind = lab.b.kind
  /\ lab.a.value # lab.b.value

(* The entries of method_transforms whose method is in dex file d. *)
EntriesOfDex(d) ==
  {i \in 1..Len(method_transforms) :
     ClassOf(method_transforms[i].method) \in Range(DexFiles(stores)[d])}

(* The transforms of the entries of dex d from the first in the order of   *)
(* the loop down to entry i.                                               *)
TransformsDownTo(d, i) ==
  SumSeq([m \in 1..Cardinality(Methods) |->
            IF \E j \in EntriesOfDex(d) :
                 /\ method_transforms[j].method = m
                 /\ m >= method_transforms[i].method
              THEN Len(method_transforms[
                         CHOOSE j \in EntriesOfDex(d) :
                           method_transforms[j].method = m].transforms)
              ELSE 0])

(* C21: the candidates of a dex are processed in descending                *)
(* compare_dexmethods order and the loop stops at the first whose          *)
(* transforms would exceed transforms_per_dex: a candidate is transformed  *)
(* exactly when the transforms of all candidates down to it fit, so every  *)
(* candidate after the first that does not fit stays as it was, also one   *)
(* that would fit in what is left of the budget.                           *)
C21_StopsAtFirstOverBudget ==
  (active = "ccb" /\ pc = "done") =>
    /\ \A d \in Dexes : \A i \in EntriesOfDex(d) :
         (method_transforms[i].method \in AppliedMethods)
           <=> (TransformsDownTo(d, i) <= config.transforms_per_dex)
    /\ \A a, b \in 1..Len(applied) :
         (a < b /\ applied[a].dex = applied[b].dex)
           => applied[a].method > applied[b].method

(* A finished run that left alone a candidate that comes after the break   *)
(* and would have fitted in the rest of the budget.                        *)
C21_Witness ==
  /\ active = "ccb"
  /\ pc = "done"
  /\ \E d \in Dexes : \E i \in EntriesOfDex(d) :
       /\ method_transforms[i].method \notin AppliedMethods
       /\ AppliedInDex(d) + Len(method_transforms[i].transforms)
            <= config.transforms_per_dex

(* The sizes of the encoded strings of the transforms in a log. *)
SizesOfLog(log) == SumSeq([j \in 1..Len(log) |-> log[j].size])

(* C22: the metric total_string_size equals the sum, over all applied      *)
(* branch transforms, several of one method included, of the size of the   *)
(* encoded string made for the transform.                                  *)
C22_TotalStringSize ==
  (active = "ccb" /\ pc = "done" /\ lookup = "found") =>
    metrics.string_tree_size
      = SumSeq([i \in 1..Len(applied) |-> SizesOfLog(applied[i].log)])

(* A finished run that applied two transforms to one method. *)
C22_Witness ==
  /\ active = "ccb"
  /\ pc = "done"
  /\ \E i \in 1..Len(applied) : Len(applied[i].log) = 2

(* The method of the lab has passed should_consider_method. *)
LabConsidered ==
  /\ lab.unit = "cfg"
  /\ lab.mode = "pass"
  /\ lab.stage \notin {"loaded", "skipped"}

(* The blocks that end in an if, in the order of cfg.blocks(). *)
IfBlocks(code) == {b \in code.blocks : code.last[b] = "if"}

(* C23: a method that passes should_consider_method, and so reaches the    *)
(* SwitchEquivFinder, has a block ending in an if and no catch block at or *)
(* before the first such block in block order; catch blocks after it are   *)
(* not looked at.                                                          *)
C23_NoCatchUpToFirstBranch ==
  LabConsidered =>
    /\ IfBlocks(InitCode(lab.shape)) # {}
    /\ \A c \in InitCode(lab.shape).catch : c > Min(IfBlocks(InitCode(lab.shape)))

(* C23 as stated: no method with a catch block passes, whatever the        *)
(* position of the block.                                                  *)
C23_NoCatchAnywhere == LabConsidered => InitCode(lab.shape).catch = {}

(* A method with a catch block after its first branch has passed. *)
C23_Witness ==
  /\ LabConsidered
  /\ lab.stage = "considered"
  /\ InitCode(lab.shape).catch # {}

(* The transforms applied so far, over all methods. *)
AppliedLogs == Concat([i \in 1..Len(applied) |-> applied[i].log])

(* C24: every applied branch transform installs at least min_cases and at  *)
(* most max_cases switch cases, which are as many as the entries of its    *)
(* encoded string tree, also when consider_external_classes is false and   *)
(* some case types are external or have no class definition.               *)
C24_InstalledCasesInRange ==
  active = "ccb" =>
    \A i \in 1..Len(AppliedLogs) :
      /\ Len(AppliedLogs[i].new_edges) = Len(AppliedLogs[i].items)
      /\ Len(AppliedLogs[i].items) >= config.min_cases
      /\ Len(AppliedLogs[i].items) <= config.max_cases

(* An applied transform with a case type that is external or without a     *)
(* class definition, external classes not being considered.                *)
C24_Witness ==
  /\ active = "ccb"
  /\ ~config.consider_external_classes
  /\ \E i \in 1..Len(AppliedLogs) :
       \E t \in DOMAIN AppliedLogs[i].key_to_case : type_class(t) # "internal"

(* Whether the stat of ref r in interaction a satisfies the hot criteria. *)
HotIn(a, r) ==
  /\ lab.stats[a][r] # NoStat
  /\ passes_thresholds(lab.perf, a = "ColdStart", lab.stats[a][r])
  /\ legacy_hot(lab.perf, a = "ColdStart", lab.stats[a][r])

(* C25: in the legacy baseline profile a method that satisfies the hot     *)
(* criteria in at least one configured interaction is flagged hot and      *)
(* post_startup, for every order in which the interactions are processed.  *)
C25_HotSurvivesOtherInteractions ==
  (lab.unit = "legacy" /\ lab.stage = "returned") =>
    \A r \in ProfiledRefs \ lab.undefined :
      (\E i \in 1..Len(lab.interactions) : HotIn(lab.interactions[i], r)) =>
        /\ r \in DOMAIN lab.res
        /\ lab.res[r].hot
        /\ lab.res[r].post_startup

(* A returned profile of a method that is hot in one interaction and was   *)
(* let in as a non-hot ColdStart method.                                   *)
C25_Witness ==
  /\ lab.unit = "legacy"
  /\ lab.stage = "returned"
  /\ Len(lab.interactions) = 2
  /\ \E r \in ProfiledRefs \ lab.undefined :
       /\ HotIn("Other", r)
       /\ ~HotIn("ColdStart", r)
       /\ lab.stats["ColdStart"][r] # NoStat
       /\ passes_thresholds(lab.perf, TRUE, lab.stats["ColdStart"][r])

(* A method without what annotating changes of it. *)
WithoutAnnos(method) == [method EXCEPT !.annos = {}, !.has_anno_set = FALSE]

(* The scope run_pass was handed: the methods as they were before it. *)
ScopeBefore ==
  CHOOSE sc \in ArtScopes :
    \A m \in Methods : WithoutAnnos(sc[m]) = WithoutAnnos(ameth[m])

(* The methods never_compile gave the NeverCompile annotation. *)
NeverCompileAttached ==
  {m \in Methods : /\ "NeverCompile" \in ameth[m].annos
                   /\ "NeverCompile" \notin ScopeBefore[m].annos}

(* never_compile has run and returned. *)
AfterNeverCompile ==
  /\ active = "art"
  /\ art.never_compile_threshold > -1
  /\ pc \in {"count", "never_inline", "attach", "done"}

(* C26: after never_compile every method the pass gave the NeverCompile    *)
(* annotation, by combining with an existing annotation set or by          *)
(* attaching a new one, has hot = false in the baseline profile, and its   *)
(* access flags are what they were before the call.                        *)
C26_NeverCompileIsNotHot ==
  AfterNeverCompile =>
    \A m \in NeverCompileAttached :
      /\ m \in DOMAIN profile
      /\ ~profile[m].hot
      /\ ameth[m].access = ScopeBefore[m].access

(* never_compile has combined NeverCompile with an existing annotation set *)
(* of a method.                                                            *)
C26_Witness ==
  /\ AfterNeverCompile
  /\ \E m \in NeverCompileAttached : ScopeBefore[m].has_anno_set

(* C27: in never_inline the sets hot_hot_callees and hot_cold_callees are  *)
(* disjoint, for every call graph and every interleaving of the workers:   *)
(* a callee is in the first when it is compiled by the profile and in the  *)
(* second when it is not; the metric never_inline_callees_too_hot is 0.    *)
C27_HotAndColdCalleesDisjoint ==
  active = "art" =>
    /\ callees.hot_hot \cap callees.hot_cold = {}
    /\ \A c \in callees.hot_hot : is_compiled(profile, ameth, c)
    /\ \A c \in callees.hot_cold : ~is_compiled(profile, ameth, c)
    /\ counters["callees_too_hot"] = 0
    /\ pc = "done" => metrics["callees_too_hot"] = 0

(* The second walk has gone over a scope with callees of both kinds. *)
C27_Witness ==
  /\ active = "art"
  /\ pc = "done"
  /\ callees.hot_hot # {}
  /\ callees.hot_cold # {}

(* C28: get_callee terminates for every caller and invoke instruction,     *)
(* also when simple methods invoke themselves or each other in a cycle.    *)
C28_GetCalleeTerminates == lab.unit = "callee" ~> lab.stage = "returned"

(* get_callee has followed a simple method to an invoke of a method it has *)
(* been at: the simple method it is at invokes itself.                     *)
C28_Witness ==
  /\ lab.unit = "callee"
  /\ lab.stage = "resolve"
  /\ lab.callee # Null
  /\ resolve_invoke_method(lab.invoke_insn) = lab.callee

(* The block is: k load-params, then a (0 or 1) of const, iget, sget or    *)
(* invoke, then b (0 or 1) move-result, then the return.                   *)
SimplePattern(insns) ==
  \E k \in 0..Len(insns), a \in {0, 1}, b \in {0, 1} :
    /\ Len(insns) = k + a + b + 1
    /\ \A i \in 1..k : insns[i].op = "load_param"
    /\ a = 1 => insns[k + 1].op \in {"const", "iget", "sget", "invoke"}
    /\ b = 1 => insns[k + a + 1].op = "move_result"
    /\ insns[Len(insns)].op = "return"

(* The method of the lab has a single block that ends in a return. *)
SingleReturnBlock ==
  /\ lab.unit = "simple"
  /\ lab.method.nblocks = 1
  /\ lab.method.insns # <<>>
  /\ lab.method.insns[Len(lab.method.insns)].op = "return"

(* C29: on a method whose cfg has a single block ending in a return,       *)
(* is_simple never fails an always_assert(it != end), and it returns true  *)
(* exactly when the block is zero or more load-params, then at most one    *)
(* const, iget, sget or invoke, then at most one move-result, then the     *)
(* return.                                                                 *)
C29_IsSimpleExact ==
  SingleReturnBlock =>
    /\ lab.stage # "assert_failed"
    /\ lab.stage = "returned" =>
         /\ lab.result = SimplePattern(lab.method.insns)
         /\ lab.result = is_simple(lab.method)

(* is_simple has returned true for a block of load-params, an invoke, a    *)
(* move-result and the return.                                             *)
C29_Witness ==
  /\ SingleReturnBlock
  /\ lab.stage = "returned"
  /\ lab.result
  /\ lab.invoke_insn # NoInsn
  /\ Len(lab.method.insns) = 4

(* The indices in the names of the getters made in dex d, in the order of  *)
(* their making.                                                           *)
GetterIndices(d) ==
  Concat([i \in 1..Len(applied) |->
            IF applied[i].dex = d
              THEN [j \in 1..Len(applied[i].log) |-> applied[i].log[j].index]
            ELSE <<>>])

(* C30: no two getter methods the pass makes in one run for one class have *)
(* the same name: over all methods of a dex, the applied branch transforms *)
(* get the consecutive indices 0, 1, 2, ..., below transforms_per_dex, of  *)
(* the names __RDX_GET_STR_<index>.                                        *)
C30_GetterNamesDistinct ==
  active = "ccb" =>
    /\ Len(getters) = Len(AppliedLogs)
    /\ \A i \in 1..Len(getters) : \A j \in 1..Len(getters) :
         i # j => getters[i] # getters[j]
    /\ \A d \in Dexes :
         /\ GetterIndices(d) = [k \in 1..AppliedInDex(d) |-> k - 1]
         /\ \A k \in 1..Len(GetterIndices(d)) :
              GetterIndices(d)[k] < config.transforms_per_dex
    /\ \A i \in 1..Len(applied) : \A j \in 1..Len(applied[i].log) :
         MethodRef("getter", ClassOf(applied[i].method), applied[i].log[j].index)
           \in Range(getters)

(* Two methods of one class have each been given a getter. *)
C30_Witness ==
  /\ active = "ccb"
  /\ \E i \in 1..Len(applied) : \E j \in 1..Len(applied) :
       /\ applied[i].method # applied[j].method
       /\ ClassOf(applied[i].method) = ClassOf(applied[j].method)

====
